---- MODULE Spec2Model ----
(***************************************************************************)
(* Model of services/dataService.ts of the TexFlow production tracker:     *)
(* order and sector state derivation, numeric parsing, and the spreadsheet *)
(* and embedded-database import / export paths.                            *)
(*                                                                         *)
(* JavaScript values are tagged records [k |-> kind, v |-> payload] so     *)
(* that the language's dynamic typing (truthiness tests, typeof tests,     *)
(* String(), JSON) is modelled by what it does.                            *)
(***************************************************************************)
EXTENDS Integers, Sequences, FiniteSets, TLC

VARIABLES
    order,      \* the Order handed to getOrderState / getSectorState
    clock,      \* the wall clock (ms) read by "new Date()" in getOrderState
    orderRet,   \* value returned by the last getOrderState call, or NoRet
    sectorRet,  \* values returned by getSectorState per sector id, or NoRet
    numIn,      \* the raw cell value handed to parseNumber
    numOut,     \* value returned by the last parseNumber call, or NotCalled
    orders,     \* the in-memory order list handed to the export functions
    file,       \* the data file: written by an export, or supplied from outside
    exported,   \* how the export call ended: "none", "done" or "failed"
    result,     \* the settled promise of the import call, or NoResult
    stored,     \* the order list kept in local persistence, or NotStored
    loaded,     \* what loadOrdersFromDB resolved with, or NotLoaded
    userStore,  \* the object store "users" of local persistence, by user id
    initCall,   \* the initializeDefaultUsers call of each caller: its position
    userOps,    \* how many saveUserToDB / deleteUserFromDB calls were made
    reader,     \* the FileReader of an import call: its position
    medium,     \* whether the file's bytes can be read and decoded
    pc,         \* the position of an exportOrdersToSQLite call
    sqlDb,      \* the in-memory database of the export call
    handle,     \* the directory handle given to the export call
    dirFile,    \* the file of the configured directory
    download,   \* the file handed to the browser as a download
    outcome,    \* the promise of the export call
    kpis,       \* value returned by the last calculateKPIs call, or NoKpis
    keys,       \* the column keys handed to exportCustomColumns
    sheet       \* the workbook exportCustomColumns wrote, or NoSheet

stateVars == <<order, clock, orderRet, sectorRet>>

numVars == <<numIn, numOut>>

ioVars == <<orders, file, exported, result>>

storeVars == <<stored, loaded, userStore, initCall, userOps>>

importVars == <<reader, medium>>

exportVars == <<pc, sqlDb, handle, dirFile, download, outcome>>

kpiVars == <<kpis>>

customVars == <<keys, sheet>>

vars == <<order, clock, orderRet, sectorRet, numIn, numOut, orders, file, exported, result,
          stored, loaded, userStore, initCall, userOps, reader, medium, pc, sqlDb, handle, dirFile, download, outcome,
          kpis, keys, sheet>>

----------------------------------------------------------------------------
(* Bounds of the model.                                                    *)

\* Quantities range over 0..MaxQty.
MaxQty == 2

\* Timestamps cover the days 0..MaxDay (day 0 starts at the epoch).
MaxDay == 1

\* An input order differs from the base order in at most MaxSet fields.
MaxSet == 3

\* Strings handed to parseNumber have at most MaxLen characters.
MaxLen == 4

\* Order lists and data files hold at most MaxOrders orders.
MaxOrders == 2

\* Files imported event by event hold at most MaxRead rows.
MaxRead == 1

\* The callers that may run initializeDefaultUsers at the same time.
MaxCalls == 2

\* The saveUserToDB and deleteUserFromDB calls made by other callers.
MaxOps == 2

\* Milliseconds in a day (the factor 86400000 of the source).
MsPerDay == 86400000

----------------------------------------------------------------------------
(* JavaScript values.                                                      *)

Null == [k |-> "null", v |-> 0]

Undef == [k |-> "undef", v |-> 0]

Num(n) == [k |-> "num", v |-> n]

\* A string, as the sequence of its characters.
Str(s) == [k |-> "str", v |-> s]

\* A non-integer number m / 10^e (e > 0, m not a multiple of 10).
Dec(m, e) == [k |-> "dec", v |-> <<m, e>>]

NaN == [k |-> "nan", v |-> 0]

\* typeof x === 'number'
IsNumber(x) == x.k \in {"num", "dec", "nan"}

Bool(b) == [k |-> "bool", v |-> b]

\* A Date object holding the timestamp t (getTime() = t).
DateV(t) == [k |-> "date", v |-> t]

\* A plain object: a mapping from keys to values.
Obj(m) == [k |-> "obj", v |-> m]

EmptyObj == Obj(<<>>)

\* ToBoolean: what "x ? a : b", "!x", "x && y" and "x || y" test.
Truthy(x) ==
    CASE x.k = "null"  -> FALSE
      [] x.k = "undef" -> FALSE
      [] x.k = "num"   -> x.v # 0
      [] x.k = "nan"   -> FALSE
      [] x.k = "str"   -> x.v # <<>>
      [] x.k = "bool"  -> x.v
      [] OTHER         -> TRUE

\* "a || b"
OrElse(a, b) == IF Truthy(a) THEN a ELSE b

\* The first and the last millisecond of each modelled day.
Ticks == { d * MsPerDay + t : d \in 0..MaxDay, t \in {0, MsPerDay - 1} }

\* Date.setHours(0, 0, 0, 0): the timestamp truncated to its day's midnight.
StartOfDay(t) == t - (t % MsPerDay)

----------------------------------------------------------------------------
(* The Order record: its 45 stored fields.                                 *)

QtyFields ==
    {"qtyRequested", "felpoCruQty", "tinturariaQty", "confRoupoesQty",
     "confFelposQty", "embAcabQty", "stockCxQty", "qtyBilled", "qtyOpen"}

\* The date-typed columns hydrated by the embedded-database import.
dateFields ==
    {"issueDate", "requestedDate", "dataTec", "felpoCruDate", "tinturariaDate",
     "confDate", "armExpDate", "dataEnt", "dataEspecial", "dataPrinter",
     "dataDebuxo", "dataAmostras", "dataBordados"}

TextFields ==
    {"id", "docNr", "clientCode", "clientName", "comercial", "po",
     "articleCode", "reference", "colorCode", "colorDesc", "size", "family",
     "sizeDesc", "ean"}

MapFields == {"sectorObservations", "sectorPredictedDates", "sectorStopReasons"}

OrderFields ==
    TextFields \cup QtyFields \cup dateFields \cup MapFields \cup
    {"itemNr", "priority", "isManual", "isArchived", "archivedAt", "archivedBy"}

SectorIds ==
    {"tecelagem", "felpo_cru", "tinturaria", "confeccao", "embalagem", "expedicao"}

\* The order the spreadsheet import builds from a row that carries only a
\* document number, a requested quantity and an open quantity: absent text
\* cells give '', absent numbers 0, absent dates null, absent JSON {}.
BaseOrder ==
    [f \in OrderFields |->
        CASE f = "id"           -> Str(<<"E", "1", "-", "0">>)
          [] f = "docNr"        -> Str(<<"E", "1">>)
          [] f \in TextFields   -> Str(<<>>)
          [] f = "itemNr"       -> Num(0)
          [] f = "qtyRequested" -> Num(MaxQty)
          [] f = "qtyOpen"      -> Num(MaxQty)
          [] f \in QtyFields    -> Num(0)
          [] f \in dateFields   -> Null
          [] f \in MapFields    -> EmptyObj
          [] f = "priority"     -> Num(0)
          [] f = "isManual"     -> Bool(FALSE)
          [] f = "isArchived"   -> Bool(FALSE)
          [] OTHER              -> Null]

----------------------------------------------------------------------------
(* Order state machine.                                                    *)

\* Mutant of IsPast: "<=" for "<", so a due date at today's midnight is past.
IsPastInclusive(d, now) == Truthy(d) /\ d.v <= now

\* "d && d < now" for a Date | null field d.
IsPast(d, now) == Truthy(d) /\ d.v < now

\* Mutant of getOrderState: the due-date tests run before the completion test.
getOrderStateLateFirst(o, clk) ==
    LET now == StartOfDay(clk)
        confTotal == o.confRoupoesQty.v + o.confFelposQty.v
        late ==
            \/ IsPast(o.dataTec, now) /\ o.felpoCruQty.v < o.qtyRequested.v
            \/ IsPast(o.felpoCruDate, now) /\ o.felpoCruQty.v < o.qtyRequested.v
            \/ IsPast(o.tinturariaDate, now) /\ confTotal < o.qtyRequested.v
            \/ IsPast(o.confDate, now) /\ o.embAcabQty.v < o.qtyRequested.v
            \/ IsPast(o.requestedDate, now) /\ o.qtyOpen.v > 0
    IN  IF late THEN "LATE"
        ELSE IF o.qtyOpen.v = 0 \/ (o.stockCxQty.v >= o.qtyRequested.v /\ o.qtyRequested.v > 0)
            THEN "COMPLETED"
        ELSE IF o.felpoCruQty.v > 0 \/ o.tinturariaQty.v > 0 \/ confTotal > 0 \/ o.embAcabQty.v > 0
            THEN "IN_PRODUCTION"
        ELSE "OPEN"

\* Mutant of getOrderState: an open quantity counts as sector progress.
getOrderStateOpenStarted(o, clk) ==
    LET now == StartOfDay(clk)
        confTotal == o.confRoupoesQty.v + o.confFelposQty.v
        late ==
            \/ IsPast(o.dataTec, now) /\ o.felpoCruQty.v < o.qtyRequested.v
            \/ IsPast(o.felpoCruDate, now) /\ o.felpoCruQty.v < o.qtyRequested.v
            \/ IsPast(o.tinturariaDate, now) /\ confTotal < o.qtyRequested.v
            \/ IsPast(o.confDate, now) /\ o.embAcabQty.v < o.qtyRequested.v
            \/ IsPast(o.requestedDate, now) /\ o.qtyOpen.v > 0
    IN  IF o.qtyOpen.v = 0 \/ (o.stockCxQty.v >= o.qtyRequested.v /\ o.qtyRequested.v > 0)
            THEN "COMPLETED"
        ELSE IF late THEN "LATE"
        ELSE IF \/ o.felpoCruQty.v > 0 \/ o.tinturariaQty.v > 0 \/ confTotal > 0
                \/ o.embAcabQty.v > 0 \/ o.qtyOpen.v > 0
            THEN "IN_PRODUCTION"
        ELSE "OPEN"

\* Mutant of getOrderState: the stock test is missing from the completion test.
getOrderStateNoStock(o, clk) ==
    LET now == StartOfDay(clk)
        confTotal == o.confRoupoesQty.v + o.confFelposQty.v
        late ==
            \/ IsPast(o.dataTec, now) /\ o.felpoCruQty.v < o.qtyRequested.v
            \/ IsPast(o.felpoCruDate, now) /\ o.felpoCruQty.v < o.qtyRequested.v
            \/ IsPast(o.tinturariaDate, now) /\ confTotal < o.qtyRequested.v
            \/ IsPast(o.confDate, now) /\ o.embAcabQty.v < o.qtyRequested.v
            \/ IsPast(o.requestedDate, now) /\ o.qtyOpen.v > 0
    IN  IF o.qtyOpen.v = 0 THEN "COMPLETED"
        ELSE IF late THEN "LATE"
        ELSE IF o.felpoCruQty.v > 0 \/ o.tinturariaQty.v > 0 \/ confTotal > 0 \/ o.embAcabQty.v > 0
            THEN "IN_PRODUCTION"
        ELSE "OPEN"

\* Mutant of getOrderState: an order counts as completed only by its stock,
\* not by an open quantity of 0.
getOrderStateStockOnly(o, clk) ==
    LET now == StartOfDay(clk)
        isCompleted == o.stockCxQty.v >= o.qtyRequested.v /\ o.qtyRequested.v > 0
        confTotal == o.confRoupoesQty.v + o.confFelposQty.v
        hasStarted ==
            \/ o.felpoCruQty.v > 0
            \/ o.tinturariaQty.v > 0
            \/ confTotal > 0
            \/ o.embAcabQty.v > 0
    IN  IF isCompleted THEN "COMPLETED"
        ELSE IF IsPast(o.dataTec, now) /\ o.felpoCruQty.v < o.qtyRequested.v
            THEN "LATE"
        ELSE IF IsPast(o.felpoCruDate, now) /\ o.felpoCruQty.v < o.qtyRequested.v
            THEN "LATE"
        ELSE IF IsPast(o.tinturariaDate, now) /\ confTotal < o.qtyRequested.v
            THEN "LATE"
        ELSE IF IsPast(o.confDate, now) /\ o.embAcabQty.v < o.qtyRequested.v
            THEN "LATE"
        ELSE IF IsPast(o.requestedDate, now) /\ o.qtyOpen.v > 0
            THEN "LATE"
        ELSE IF hasStarted THEN "IN_PRODUCTION"
        ELSE "OPEN"

getOrderState(o, clk) ==
    LET now == StartOfDay(clk)
        isCompleted ==
            \/ o.qtyOpen.v = 0
            \/ (o.stockCxQty.v >= o.qtyRequested.v /\ o.qtyRequested.v > 0)
        confTotal == o.confRoupoesQty.v + o.confFelposQty.v
        hasStarted ==
            \/ o.felpoCruQty.v > 0
            \/ o.tinturariaQty.v > 0
            \/ confTotal > 0
            \/ o.embAcabQty.v > 0
    IN  IF isCompleted THEN "COMPLETED"
        ELSE IF IsPast(o.dataTec, now) /\ o.felpoCruQty.v < o.qtyRequested.v
            THEN "LATE"
        ELSE IF IsPast(o.felpoCruDate, now) /\ o.felpoCruQty.v < o.qtyRequested.v
            THEN "LATE"
        ELSE IF IsPast(o.tinturariaDate, now) /\ confTotal < o.qtyRequested.v
            THEN "LATE"
        ELSE IF IsPast(o.confDate, now) /\ o.embAcabQty.v < o.qtyRequested.v
            THEN "LATE"
        ELSE IF IsPast(o.requestedDate, now) /\ o.qtyOpen.v > 0
            THEN "LATE"
        ELSE IF hasStarted THEN "IN_PRODUCTION"
        ELSE "OPEN"

\* The switch of getSectorState: the quantity a sector id stands for.
SectorQty(o, sectorId) ==
    CASE sectorId = "tecelagem"  -> o.felpoCruQty.v
      [] sectorId = "felpo_cru"  -> o.felpoCruQty.v
      [] sectorId = "tinturaria" -> o.tinturariaQty.v
      [] sectorId = "confeccao"  -> o.confRoupoesQty.v + o.confFelposQty.v
      [] sectorId = "embalagem"  -> o.embAcabQty.v
      [] sectorId = "expedicao"  -> o.stockCxQty.v
      [] OTHER                   -> 0

\* Mutant of getSectorState: the "qtyRequested > 0" test is missing.
getSectorStateNoRequested(o, sectorId) ==
    LET qty == SectorQty(o, sectorId)
    IN  IF qty >= o.qtyRequested.v THEN "COMPLETED"
        ELSE IF qty > 0 THEN "IN_PROGRESS"
        ELSE "NOT_STARTED"

getSectorState(o, sectorId) ==
    LET qty == SectorQty(o, sectorId)
    IN  IF o.qtyRequested.v > 0 /\ qty >= o.qtyRequested.v THEN "COMPLETED"
        ELSE IF qty > 0 THEN "IN_PROGRESS"
        ELSE "NOT_STARTED"

\* The return-value variables before any call.
NoRet == "none"

NoSectorRet == [s \in SectorIds |-> NoRet]

----------------------------------------------------------------------------
(* Numeric normalizer: parseNumber over strings as character sequences.   *)

DigitChars == {"0", "1", "2", "3", "4", "5", "6", "7", "8", "9"}

DigitVal(c) ==
    CASE c = "0" -> 0 [] c = "1" -> 1 [] c = "2" -> 2 [] c = "3" -> 3
      [] c = "4" -> 4 [] c = "5" -> 5 [] c = "6" -> 6 [] c = "7" -> 7
      [] c = "8" -> 8 [] c = "9" -> 9

\* str.includes(c) for a single character c
Includes(s, c) == \E i \in 1..Len(s) : s[i] = c

\* str.replace(/c/g, '')
RemoveAll(s, c) == SelectSeq(s, LAMBDA x : x # c)

\* str.replace(c, d): only the first occurrence is replaced.
ReplaceFirst(s, c, d) ==
    IF Includes(s, c)
        THEN LET i == CHOOSE j \in 1..Len(s) :
                        s[j] = c /\ \A h \in 1..(j - 1) : s[h] # c
             IN  [s EXCEPT ![i] = d]
        ELSE s

\* str.trim()
trim(s) ==
    LET keep == {i \in 1..Len(s) : s[i] # " "}
    IN  IF keep = {} THEN <<>>
        ELSE SubSeq(s, CHOOSE i \in keep : \A j \in keep : i <= j,
                       CHOOSE i \in keep : \A j \in keep : i >= j)

\* str.split('.'): the length of the last part.
LastPartLen(s) ==
    LET dots == {i \in 1..Len(s) : s[i] = "."}
    IN  IF dots = {} THEN Len(s)
        ELSE Len(s) - (CHOOSE i \in dots : \A j \in dots : i >= j)

\* The number of consecutive digits of s from position i on.
RECURSIVE DigitRun(_, _)
DigitRun(s, i) ==
    IF i <= Len(s) /\ s[i] \in DigitChars THEN 1 + DigitRun(s, i + 1) ELSE 0

\* The value of a sequence of digits.
RECURSIVE DigitsValue(_)
DigitsValue(ds) ==
    IF ds = <<>> THEN 0
    ELSE 10 * DigitsValue(SubSeq(ds, 1, Len(ds) - 1)) + DigitVal(ds[Len(ds)])

\* The number m / 10^e as a value: an integer when it is one.
RECURSIVE MkNumber(_, _)
MkNumber(m, e) ==
    IF e = 0 THEN Num(m)
    ELSE IF m % 10 = 0 THEN MkNumber(m \div 10, e - 1)
    ELSE Dec(m, e)

\* parseFloat: leading white space is skipped, then the longest prefix
\* "digits [. digits]" or ". digits" is read; NaN when there is no digit.
\* (The modelled inputs hold no sign, no exponent and no "Infinity".)
parseFloat(s) ==
    LET lead == CHOOSE n \in 0..Len(s) :
                    /\ \A i \in 1..n : s[i] = " "
                    /\ (n < Len(s) => s[n + 1] # " ")
        t  == SubSeq(s, lead + 1, Len(s))
        n1 == DigitRun(t, 1)
        hasDot == n1 < Len(t) /\ t[n1 + 1] = "."
        n2 == IF hasDot THEN DigitRun(t, n1 + 2) ELSE 0
    IN  IF n1 + n2 = 0 THEN NaN
        ELSE MkNumber(DigitsValue(SubSeq(t, 1, n1) \o SubSeq(t, n1 + 2, n1 + 1 + n2)), n2)

\* "isNaN(num) ? 0 : num"
ZeroIfNaN(x) == IF x = NaN THEN Num(0) ELSE x

\* Mutant of parseNumber: with both separators the dots are not removed.
parseNumberKeepDots(val) ==
    IF IsNumber(val) THEN val
    ELSE IF ~Truthy(val) THEN Num(0)
    ELSE LET str == trim(val.v)
         IN  IF str = <<>> THEN Num(0)
             ELSE IF Includes(str, ",")
                 THEN ZeroIfNaN(parseFloat(ReplaceFirst(str, ",", ".")))
             ELSE IF Includes(str, ".") /\ LastPartLen(str) = 3
                 THEN ZeroIfNaN(parseFloat(RemoveAll(str, ".")))
             ELSE ZeroIfNaN(parseFloat(str))

parseNumber(val) ==
    IF IsNumber(val) THEN val
    ELSE IF ~Truthy(val) THEN Num(0)
    ELSE LET str == trim(val.v)
         IN  IF str = <<>> THEN Num(0)
             ELSE IF Includes(str, ",") /\ Includes(str, ".")
                 THEN ZeroIfNaN(parseFloat(ReplaceFirst(RemoveAll(str, "."), ",", ".")))
             ELSE IF Includes(str, ",")
                 THEN ZeroIfNaN(parseFloat(ReplaceFirst(str, ",", ".")))
             ELSE IF Includes(str, ".") /\ LastPartLen(str) = 3
                 THEN ZeroIfNaN(parseFloat(RemoveAll(str, ".")))
             ELSE ZeroIfNaN(parseFloat(str))

----------------------------------------------------------------------------
(* Strings, dates and JSON as the import and export paths use them.        *)

\* Decimal digits of a non-negative integer, as String(n) prints them.
RECURSIVE NatChars(_)
NatChars(n) ==
    LET d == <<"0", "1", "2", "3", "4", "5", "6", "7", "8", "9">>[(n % 10) + 1]
    IN  IF n < 10 THEN <<d>> ELSE Append(NatChars(n \div 10), d)

\* String(x), for the text, number and boolean cells of the modelled files.
ToChars(x) ==
    CASE x.k = "str"  -> x.v
      [] x.k = "num"  -> NatChars(x.v)
      [] x.k = "bool" -> IF x.v THEN <<"t", "r", "u", "e">> ELSE <<"f", "a", "l", "s", "e">>

UpperLetters == <<"A", "B", "C", "D", "E", "F", "G", "H", "I", "J", "K", "L", "M",
                  "N", "O", "P", "Q", "R", "S", "T", "U", "V", "W", "X", "Y", "Z">>

LowerLetters == <<"a", "b", "c", "d", "e", "f", "g", "h", "i", "j", "k", "l", "m",
                  "n", "o", "p", "q", "r", "s", "t", "u", "v", "w", "x", "y", "z">>

\* str.toLowerCase()
toLowerCase(s) ==
    [i \in 1..Len(s) |->
        IF \E j \in 1..26 : UpperLetters[j] = s[i]
            THEN LowerLetters[CHOOSE j \in 1..26 : UpperLetters[j] = s[i]]
            ELSE s[i]]

\* str.includes(sub) for a string sub
IncludesStr(s, sub) ==
    \E i \in 0..(Len(s) - Len(sub)) : SubSeq(s, i + 1, i + Len(sub)) = sub

\* "String(x || '').trim()"
TrimmedText(x) == Str(trim(IF Truthy(x) THEN ToChars(x) ELSE <<>>))

\* parseInt(x): an integer stays, a string gives its leading digits or NaN.
parseInt(x) ==
    IF x.k = "num" THEN x
    ELSE LET t == trim(ToChars(x))
             n == DigitRun(t, 1)
         IN  IF n = 0 THEN NaN ELSE Num(DigitsValue(SubSeq(t, 1, n)))

\* The display string formatDate gives: it names the day of the date.
formatDate(d) == [k |-> "daystr", v |-> d.v \div MsPerDay]

\* The serial number spreadsheets give to 1 January 1970.
EpochSerial == 25569

\* parseExcelDate: a date value passes, a serial number and a display
\* string are converted to the midnight of their day, anything else is null.
parseExcelDate(x) ==
    CASE x.k = "date"   -> x
      [] x.k = "num"    -> DateV((x.v - EpochSerial) * MsPerDay)
      [] x.k = "daystr" -> DateV(x.v * MsPerDay)
      [] OTHER          -> Null

\* The ISO string Date.prototype.toJSON gives: it keeps the milliseconds.
Iso(t) == [k |-> "iso", v |-> t]

\* new Date(Number.NaN), or new Date of a text that is no date.
InvalidDate == [k |-> "baddate", v |-> 0]

\* new Date(x) for a timestamp, an ISO string, a date or another string.
NewDate(x) ==
    CASE x.k = "num"  -> DateV(x.v)
      [] x.k = "iso"  -> DateV(x.v)
      [] x.k = "date" -> x
      [] OTHER        -> InvalidDate

\* A string that holds the JSON text of the value x.
JsonText(x) == [k |-> "json", v |-> x]

\* A non-empty string that is no JSON text.
BadJson == [k |-> "badjson", v |-> 0]

\* What JSON.stringify writes for one value of an object.
JsonOf(x) ==
    CASE x.k = "date"    -> Iso(x.v)
      [] x.k = "baddate" -> Null
      [] x.k = "nan"     -> Null
      [] OTHER           -> x

\* JSON.stringify(x) for a plain object x: undefined values are left out.
stringify(x) ==
    JsonText(Obj([key \in {h \in DOMAIN x.v : x.v[h] # Undef} |-> JsonOf(x.v[key])]))

\* JSON.parse(x) throws a SyntaxError.
ParseThrows(x) == x.k \notin {"json", "num", "bool", "null"}

\* JSON.parse(x) when it does not throw.
parse(x) == IF x.k = "json" THEN x.v ELSE x

\* The loop that turns the values of a parsed sectorPredictedDates into
\* dates: "if (m[k]) m[k] = new Date(m[k])".
HydrateDates(m) ==
    Obj([key \in DOMAIN m.v |-> IF Truthy(m.v[key]) THEN NewDate(m.v[key]) ELSE m.v[key]])

----------------------------------------------------------------------------
(* Spreadsheet export and import.                                          *)

\* The column letters a sheet row is addressed by.
Columns ==
    {"A", "B", "C", "D", "E", "F", "G", "H", "I", "J", "K", "L", "M", "N", "O",
     "P", "Q", "R", "S", "T", "U", "V", "W", "X", "Y", "Z", "AA", "AB", "AC",
     "AD", "AE", "AF", "AG", "AH", "AI", "AJ", "AK", "AL", "AM", "AN", "AO",
     "AP", "AQ", "AR"}

\* "d ? formatDate(d) : null"
DateCell(d) == IF Truthy(d) THEN formatDate(d) ELSE Null

\* "b ? 1 : 0"
FlagCell(b) == IF Truthy(b) THEN Num(1) ELSE Num(0)

\* The row object exportOrdersToExcel builds for one order.
excelRow(o) ==
    [c \in Columns |->
        CASE c = "A"  -> o.id
          [] c = "B"  -> o.docNr
          [] c = "C"  -> o.clientName
          [] c = "D"  -> DateCell(o.issueDate)
          [] c = "E"  -> DateCell(o.requestedDate)
          [] c = "F"  -> o.itemNr
          [] c = "G"  -> o.po
          [] c = "H"  -> o.articleCode
          [] c = "I"  -> o.reference
          [] c = "J"  -> o.colorCode
          [] c = "K"  -> o.colorDesc
          [] c = "L"  -> o.size
          [] c = "M"  -> o.family
          [] c = "N"  -> o.sizeDesc
          [] c = "O"  -> o.ean
          [] c = "P"  -> o.qtyRequested
          [] c = "Q"  -> DateCell(o.dataTec)
          [] c = "R"  -> o.felpoCruQty
          [] c = "S"  -> DateCell(o.felpoCruDate)
          [] c = "T"  -> o.tinturariaQty
          [] c = "U"  -> DateCell(o.tinturariaDate)
          [] c = "V"  -> o.confRoupoesQty
          [] c = "W"  -> o.confFelposQty
          [] c = "X"  -> DateCell(o.confDate)
          [] c = "Y"  -> o.embAcabQty
          [] c = "Z"  -> DateCell(o.armExpDate)
          [] c = "AA" -> o.stockCxQty
          [] c = "AB" -> o.qtyBilled
          [] c = "AC" -> o.qtyOpen
          [] c = "AD" -> o.comercial
          [] c = "AE" -> o.clientCode
          [] c = "AF" -> o.priority
          [] c = "AG" -> FlagCell(o.isManual)
          [] c = "AH" -> stringify(OrElse(o.sectorObservations, EmptyObj))
          [] c = "AI" -> stringify(OrElse(o.sectorPredictedDates, EmptyObj))
          [] c = "AJ" -> stringify(OrElse(o.sectorStopReasons, EmptyObj))
          [] c = "AK" -> DateCell(o.dataEspecial)
          [] c = "AL" -> DateCell(o.dataPrinter)
          [] c = "AM" -> DateCell(o.dataDebuxo)
          [] c = "AN" -> DateCell(o.dataAmostras)
          [] c = "AO" -> DateCell(o.dataBordados)
          [] c = "AP" -> FlagCell(o.isArchived)
          [] c = "AQ" -> DateCell(o.archivedAt)
          [] c = "AR" -> o.archivedBy]

\* The fixed label row: every column holds a non-empty label; the label of
\* column B, 'Nr. Documento', is kept up to "Doc", the others are
\* abbreviated to the column letter.
headerRow ==
    [c \in Columns |->
        IF c = "B" THEN Str(<<"N", "r", ".", " ", "D", "o", "c">>) ELSE Str(<<c>>)]

\* XLSX.utils.json_to_sheet writes no cell for null and undefined; the
\* cell is then absent (undefined) from the row sheet_to_json reads back.
SheetCells(row) ==
    [c \in Columns |-> IF row[c].k \in {"null", "undef"} THEN Undef ELSE row[c]]

\* XLSX.utils.sheet_to_json(ws, {header: 'A'}): one object per row that has
\* at least one cell, in sheet order.
sheet_to_json(rows) ==
    SelectSeq(rows, LAMBDA r : \E c \in Columns : r[c] # Undef)

\* The rows of the sheet "Dados_BD" that exportOrdersToExcel writes.
excelSheet(os) ==
    <<SheetCells(headerRow)>> \o [i \in 1..Len(os) |-> SheetCells(excelRow(os[i]))]

\* "!row['B'] || String(row['B']).toLowerCase().includes('doc')"
SkipRow(row) ==
    \/ ~Truthy(row["B"])
    \/ IncludesStr(toLowerCase(ToChars(row["B"])), <<"d", "o", "c">>)

\* "row[c] ? JSON.parse(row[c]) : {}", when JSON.parse does not throw.
JsonCell(x) == IF Truthy(x) THEN parse(x) ELSE EmptyObj

\* "x === 1 || x === '1' || x === true"
IsFlagSet(x) == x = Num(1) \/ x = Str(<<"1">>) \/ x = Bool(TRUE)

\* JSON.parse throws on one of the three JSON cells of the row.
RowThrows(row) ==
    \E c \in {"AH", "AI", "AJ"} : Truthy(row[c]) /\ ParseThrows(row[c])

\* The sectorPredictedDates of an imported row with its values hydrated.
HydratedCell(x) ==
    LET m == JsonCell(x)
    IN  IF Truthy(m) THEN HydrateDates(m) ELSE m

\* The order parseExcelFile builds from one row.
excelOrder(row) ==
    LET docNr  == trim(ToChars(row["B"]))
        itemNr == parseNumber(row["F"])
    IN  [f \in OrderFields |->
            CASE f = "id"             -> OrElse(row["A"], Str(docNr \o <<"-">> \o ToChars(itemNr)))
              [] f = "docNr"          -> Str(docNr)
              [] f = "clientCode"     -> TrimmedText(OrElse(row["AE"], row["C"]))
              [] f = "clientName"     -> TrimmedText(row["C"])
              [] f = "comercial"      -> TrimmedText(OrElse(row["AD"], row["L"]))
              [] f = "issueDate"      -> parseExcelDate(row["D"])
              [] f = "requestedDate"  -> parseExcelDate(row["E"])
              [] f = "itemNr"         -> itemNr
              [] f = "po"             -> TrimmedText(row["G"])
              [] f = "articleCode"    -> TrimmedText(row["H"])
              [] f = "reference"      -> TrimmedText(row["I"])
              [] f = "colorCode"      -> TrimmedText(row["J"])
              [] f = "colorDesc"      -> TrimmedText(row["K"])
              [] f = "size"           -> TrimmedText(row["L"])
              [] f = "family"         -> TrimmedText(row["M"])
              [] f = "sizeDesc"       -> TrimmedText(row["N"])
              [] f = "ean"            -> TrimmedText(row["O"])
              [] f = "qtyRequested"   -> parseNumber(row["P"])
              [] f = "dataTec"        -> parseExcelDate(row["Q"])
              [] f = "felpoCruQty"    -> parseNumber(row["R"])
              [] f = "felpoCruDate"   -> parseExcelDate(row["S"])
              [] f = "tinturariaQty"  -> parseNumber(row["T"])
              [] f = "tinturariaDate" -> parseExcelDate(row["U"])
              [] f = "confRoupoesQty" -> parseNumber(row["V"])
              [] f = "confFelposQty"  -> parseNumber(row["W"])
              [] f = "confDate"       -> parseExcelDate(row["X"])
              [] f = "embAcabQty"     -> parseNumber(row["Y"])
              [] f = "armExpDate"     -> parseExcelDate(row["Z"])
              [] f = "stockCxQty"     -> parseNumber(row["AA"])
              [] f = "qtyBilled"      -> parseNumber(row["AB"])
              [] f = "qtyOpen"        -> parseNumber(row["AC"])
              [] f = "dataEnt"        -> parseExcelDate(row["E"])
              [] f = "priority"       -> IF Truthy(row["AF"]) THEN parseInt(row["AF"]) ELSE Num(0)
              [] f = "isManual"       -> Bool(IsFlagSet(row["AG"]))
              [] f = "sectorObservations"   -> JsonCell(row["AH"])
              [] f = "sectorPredictedDates" -> HydratedCell(row["AI"])
              [] f = "sectorStopReasons"    -> JsonCell(row["AJ"])
              [] f = "dataEspecial"   -> parseExcelDate(row["AK"])
              [] f = "dataPrinter"    -> parseExcelDate(row["AL"])
              [] f = "dataDebuxo"     -> parseExcelDate(row["AM"])
              [] f = "dataAmostras"   -> parseExcelDate(row["AN"])
              [] f = "dataBordados"   -> parseExcelDate(row["AO"])
              [] f = "isArchived"     -> Bool(IsFlagSet(row["AP"]))
              [] f = "archivedAt"     -> parseExcelDate(row["AQ"])
              [] f = "archivedBy"     -> OrElse(row["AR"], Null)]

\* The settled promise of an import call.
Resolved(os, hs) == [status |-> "resolved", orders |-> os, headers |-> hs]

Rejected == [status |-> "rejected", orders |-> <<>>, headers |-> EmptyObj]

NoResult == [status |-> "none", orders |-> <<>>, headers |-> EmptyObj]

\* The header row as parseExcelFile returns it: a mapping of its cells.
HeadersOf(row) == Obj([c \in {h \in Columns : row[h] # Undef} |-> row[c]])

\* parseExcelFile on the rows of the chosen sheet: the first row is taken
\* off as the header row, the rows failing the column B test are skipped,
\* and an exception thrown for any row rejects the whole call.
parseExcelFile(rows) ==
    LET jsonData == sheet_to_json(rows)
        data == Tail(jsonData)
        kept == SelectSeq(data, LAMBDA r : ~SkipRow(r))
    IN  IF jsonData = <<>> THEN Resolved(<<>>, EmptyObj)
        ELSE IF \E i \in 1..Len(kept) : RowThrows(kept[i]) THEN Rejected
        ELSE Resolved([i \in 1..Len(kept) |-> excelOrder(kept[i])], HeadersOf(Head(jsonData)))

----------------------------------------------------------------------------
(* Embedded-database export and import.                                    *)

\* "d ? d.getTime() : null"
TimeCell(d) == IF Truthy(d) THEN Num(d.v) ELSE Null

\* The values exportOrdersToSQLite binds for one order, by column name.
sqlRow(o) ==
    [f \in OrderFields |->
        CASE f \in dateFields             -> TimeCell(o[f])
          [] f = "archivedAt"             -> TimeCell(o[f])
          [] f \in MapFields              -> stringify(OrElse(o[f], EmptyObj))
          [] f = "priority"               -> OrElse(o[f], Num(0))
          [] f \in {"isManual", "isArchived"} -> FlagCell(o[f])
          [] f = "archivedBy"             -> OrElse(o[f], Null)
          [] OTHER                        -> o[f]]

\* An INSERT fails: the id column is the primary key of the orders table.
InsertFails(os) ==
    \E i, j \in 1..Len(os) : i < j /\ os[i].id # Null /\ os[i].id = os[j].id

\* The rows of the orders table after the committed transaction.
sqlTable(os) == [i \in 1..Len(os) |-> sqlRow(os[i])]

\* "if (x) { try { x = JSON.parse(x) } catch { x = {} } }"
SqlJsonCell(x) ==
    IF ~Truthy(x) THEN x
    ELSE IF ParseThrows(x) THEN EmptyObj
    ELSE parse(x)

\* The same for sectorPredictedDates, with the hydration loop inside the
\* try: Object.keys throws on a parsed null and the catch gives {}.
SqlDatesCell(x) ==
    IF ~Truthy(x) THEN x
    ELSE IF ParseThrows(x) THEN EmptyObj
    ELSE IF parse(x).k = "null" THEN EmptyObj
    ELSE IF parse(x).k = "obj" THEN HydrateDates(parse(x))
    ELSE parse(x)

\* "if (x) x = new Date(x)"
SqlDateCell(x) == IF Truthy(x) THEN NewDate(x) ELSE x

\* The order parseSQLiteFile builds from one row of the orders table.
sqlOrder(row) ==
    [f \in OrderFields |->
        CASE f \in dateFields             -> SqlDateCell(row[f])
          [] f = "archivedAt"             -> SqlDateCell(row[f])
          [] f = "sectorPredictedDates"   -> SqlDatesCell(row[f])
          [] f \in MapFields              -> SqlJsonCell(row[f])
          [] f = "priority"               -> IF Truthy(row[f]) THEN row[f] ELSE Num(0)
          [] f = "comercial"              -> IF Truthy(row[f]) THEN row[f] ELSE Str(<<>>)
          [] f \in {"isManual", "isArchived"} -> Bool(IsFlagSet(row[f]))
          [] OTHER                        -> row[f]]

\* parseSQLiteFile on a database: the headers table may be missing; an
\* orders table without rows gives no orders.
parseSQLiteFile(db) ==
    Resolved([i \in 1..Len(db.rows) |-> sqlOrder(db.rows[i])],
             IF db.headers = Undef THEN EmptyObj ELSE db.headers)

\* A data file: its kind (by extension), where it came from, the rows of
\* its sheet or of its orders table, and its headers table (databases).
DataFile(kind, origin, rows, headers) ==
    [kind |-> kind, origin |-> origin, rows |-> rows, headers |-> headers]

NoFile == DataFile("none", "none", <<>>, Undef)

\* parseDataFile: the file name's extension selects the import path.
parseDataFile(f) ==
    IF f.kind = "sqlite" THEN parseSQLiteFile(f) ELSE parseExcelFile(f.rows)

----------------------------------------------------------------------------
(* Specification SpecNum: parseNumber applied to a raw cell value.         *)

NotCalled == [k |-> "none", v |-> 0]

\* The characters of the bounded input strings.
NumChars == {"0", "1", "5", ",", ".", " ", "x"}

\* The strings the documentation of parseNumber names.
NumExamples ==
    { <<"1", ".", "2", "3", "4", ",", "5", "6">>, <<"1", ",", "5">>,
      <<"1", ".", "5", "0", "0">>, <<"1", ",", "2", "3", "4">>,
      <<"1", ".", "2", "3", "4">> }

NumInputs ==
    {Undef, Null, NaN, Dec(15, 1)}
        \cup {Num(n) : n \in 0..MaxQty}
        \cup {Str(s) : s \in NumExamples}
        \cup {Str(s) : s \in UNION {[1..n -> NumChars] : n \in 0..MaxLen}}

IdleState ==
    /\ order = BaseOrder
    /\ clock = MaxDay * MsPerDay
    /\ orderRet = NoRet
    /\ sectorRet = NoSectorRet

IdleNum ==
    /\ numIn = Undef
    /\ numOut = NotCalled

IdleIO ==
    /\ orders = <<>>
    /\ file = NoFile
    /\ exported = "none"
    /\ result = NoResult

\* Nothing is kept in local persistence and nothing was loaded from it.
NotStored == [kept |-> FALSE, orders |-> <<>>, headers |-> EmptyObj]

NotLoaded == [status |-> "none", orders |-> <<>>, headers |-> EmptyObj]

\* The keys of the user store.
UserIds == {"1", "2", "3"}

\* No user under a key of the user store.
NoUser ==
    [id |-> "none", username |-> "none", name |-> "none", passwordHash |-> "none",
     role |-> "none"]

\* The user store as initDB creates it: empty.
EmptyUsers == [id \in UserIds |-> NoUser]

Callers == 1..MaxCalls

\* No initializeDefaultUsers call is running and none has returned.
NoCall == [pc |-> "idle", returned |-> "none"]

IdleStore ==
    /\ stored = NotStored
    /\ loaded = NotLoaded
    /\ userStore = EmptyUsers
    /\ initCall = [p \in Callers |-> NoCall]
    /\ userOps = 0

IdleImport ==
    /\ reader = "idle"
    /\ medium = "ok"

\* The database of a call that has not started, and the absent handle.
NoDb == [txn |-> "none", rows |-> <<>>, next |-> 1]

NoHandle == [given |-> FALSE, query |-> "denied", request |-> "denied", write |-> "ok"]

IdleExport ==
    /\ pc = "idle"
    /\ sqlDb = NoDb
    /\ handle = NoHandle
    /\ dirFile = NoFile
    /\ download = NoFile
    /\ outcome = "pending"

NoKpis ==
    [called |-> FALSE, weekStart |-> 0, weekEnd |-> 0, totalActiveDocs |-> 0, totalLate |-> 0,
     deliveriesThisWeek |-> 0, fulfillmentRateWeek |-> Num(0), totalInProduction |-> 0,
     billed |-> 0, open |-> 0]

IdleKpi == kpis = NoKpis

NoSheet == [written |-> FALSE, header |-> <<>>, rows |-> <<>>]

IdleCustom ==
    /\ keys = <<>>
    /\ sheet = NoSheet

InitNum ==
    /\ numIn \in NumInputs
    /\ numOut = NotCalled
    /\ IdleState
    /\ IdleIO
    /\ IdleStore /\ IdleImport /\ IdleExport /\ IdleKpi /\ IdleCustom

CallParseNumber ==
    /\ numOut = NotCalled
    /\ numOut' = parseNumber(numIn)
    /\ UNCHANGED <<numIn, stateVars, ioVars, storeVars, importVars, exportVars, kpiVars, customVars>>

NextNum == CallParseNumber

SpecNum == InitNum /\ [][NextNum]_vars

----------------------------------------------------------------------------
(* Specification SpecState: the two state functions applied to an order.   *)

\* The fields getOrderState and getSectorState read.
StateQtyFields == QtyFields \ {"qtyBilled"}

StateDateFields ==
    {"dataTec", "felpoCruDate", "tinturariaDate", "confDate", "requestedDate"}

\* The input orders: BaseOrder with at most MaxSet of the fields the state
\* functions read set to any quantity in 0..MaxQty or any date (or null).
InitState ==
    /\ \E S \in {T \in SUBSET (StateQtyFields \cup StateDateFields) :
                    Cardinality(T) <= MaxSet} :
         \E q \in [S \cap StateQtyFields -> 0..MaxQty] :
           \E d \in [S \cap StateDateFields -> {Null} \cup {DateV(t) : t \in Ticks}] :
             order = [f \in OrderFields |->
                        IF f \in DOMAIN q THEN Num(q[f])
                        ELSE IF f \in DOMAIN d THEN d[f]
                        ELSE BaseOrder[f]]
    /\ clock \in {t \in Ticks : t >= MaxDay * MsPerDay}
    /\ orderRet = NoRet
    /\ sectorRet = NoSectorRet
    /\ IdleNum
    /\ IdleIO
    /\ IdleStore /\ IdleImport /\ IdleExport /\ IdleKpi /\ IdleCustom

CallGetOrderState ==
    /\ orderRet = NoRet
    /\ orderRet' = getOrderState(order, clock)
    /\ UNCHANGED <<order, clock, sectorRet, numVars, ioVars, storeVars, importVars, exportVars,
                   kpiVars, customVars>>

CallGetSectorState ==
    /\ sectorRet = NoSectorRet
    /\ sectorRet' = [s \in SectorIds |-> getSectorState(order, s)]
    /\ UNCHANGED <<order, clock, orderRet, numVars, ioVars, storeVars, importVars, exportVars,
                   kpiVars, customVars>>

NextState ==
    \/ CallGetOrderState
    \/ CallGetSectorState

SpecState == InitState /\ [][NextState]_vars

----------------------------------------------------------------------------
(* Specification SpecIO: an order list is exported to a file, or a file    *)
(* comes from outside, and the file is imported.                           *)

\* The i-th order of a list before it is varied: BaseOrder under its own
\* document number and id.
OrderAt(i) ==
    [BaseOrder EXCEPT !["docNr"] = Str(<<"E">> \o NatChars(i)),
                      !["id"] = Str(<<"E">> \o NatChars(i) \o <<"-", "0">>)]

Sector1 == "tecelagem"

\* One field of an order set to another value of its type.
OrderChanges ==
    {<<f, DateV(t)>> : f \in {"issueDate", "requestedDate", "dataEnt", "archivedAt"}, t \in Ticks}
    \cup {<<f, Num(n)>> : f \in {"qtyRequested", "qtyOpen", "stockCxQty"}, n \in 0..MaxQty}
    \cup {<<f, Str(<<"K">>)>> : f \in {"clientCode", "clientName", "comercial", "size"}}
    \cup {<<"clientName", Str(<<" ", "N">>)>>,
          <<"docNr", Str(<<"D", "O", "C", "1">>)>>,
          <<"id", Str(<<"E", "1", "-", "0">>)>>,
          <<"archivedBy", Str(<<>>)>>, <<"archivedBy", Str(<<"A">>)>>,
          <<"isManual", Bool(TRUE)>>, <<"isArchived", Bool(TRUE)>>,
          <<"priority", Num(2)>>,
          <<"sectorObservations", Obj([k \in {Sector1} |-> Str(<<"o">>)])>>,
          <<"sectorStopReasons", Obj([k \in {Sector1} |-> Str(<<"s">>)])>>,
          <<"sectorPredictedDates", Obj([k \in {Sector1} |-> Null])>>}
    \cup {<<"sectorPredictedDates", Obj([k \in {Sector1} |-> DateV(t)])>> : t \in Ticks}

NoChange == <<"none", Undef>>

Changed(r, ch) == IF ch = NoChange THEN r ELSE [r EXCEPT ![ch[1]] = ch[2]]

\* The order lists: up to max orders, each with at most one change.
OrderLists(max) ==
    UNION { { [i \in 1..n |-> Changed(OrderAt(i), ch[i])] :
                ch \in [1..n -> OrderChanges \cup {NoChange}] } : n \in 0..max }

\* One cell of a sheet row set to another value.
CellChanges ==
    {<<"B", Undef>>, <<"B", Str(<<"d", "o", "c">>)>>, <<"B", Str(<<"N", "r", " ", "D", "O", "C">>)>>,
     <<"B", Num(7)>>, <<"B", Str(<<" ", "E", "9">>)>>, <<"A", Undef>>,
     <<"P", Str(<<"1", ".", "5", "0", "0">>)>>, <<"E", DateV(MsPerDay)>>,
     <<"E", Num(EpochSerial + 1)>>, <<"AF", Str(<<"2">>)>>, <<"AG", Str(<<"1">>)>>,
     <<"AH", Undef>>, <<"AI", Undef>>, <<"AJ", Undef>>,
     <<"AH", BadJson>>, <<"AI", BadJson>>, <<"AJ", BadJson>>,
     <<"AI", JsonText(Null)>>,
     <<"AI", JsonText(Obj([k \in {Sector1} |-> Iso(MsPerDay)]))>>,
     <<"AI", JsonText(Obj([k \in {Sector1} |-> Str(<<"x">>)]))>>,
     <<"AI", JsonText(Obj([k \in {Sector1} |-> Str(<<>>)]))>>}

\* One column of an orders-table row set to another value.
ColumnChanges ==
    {<<f, Null>> : f \in MapFields \cup {"priority", "comercial", "issueDate"}}
    \cup {<<f, BadJson>> : f \in MapFields}
    \cup {<<"sectorPredictedDates", JsonText(Null)>>,
          <<"sectorPredictedDates", JsonText(Obj([k \in {Sector1} |-> Iso(MsPerDay)]))>>,
          <<"sectorPredictedDates", JsonText(Obj([k \in {Sector1} |-> Str(<<>>)]))>>,
          <<"isManual", Str(<<"1">>)>>, <<"isArchived", Bool(TRUE)>>,
          <<"issueDate", Num(0)>>, <<"issueDate", Num(MsPerDay)>>}

\* The headers an earlier spreadsheet import returned to the application.
AppHeaders == HeadersOf(SheetCells(headerRow))

\* Files not written by this program: sheets with or without a first row
\* and databases with or without a headers table, each row with at most
\* one changed cell.
ForeignFiles(max) ==
    UNION { { DataFile("xlsx", "foreign",
                       (IF hdr THEN <<SheetCells(headerRow)>> ELSE <<>>) \o
                           [i \in 1..n |-> Changed(SheetCells(excelRow(OrderAt(i))), ch[i])],
                       Undef) :
                ch \in [1..n -> CellChanges \cup {NoChange}], hdr \in BOOLEAN } :
            n \in 0..max }
    \cup
    UNION { { DataFile("sqlite", "foreign",
                       [i \in 1..n |-> Changed(sqlRow(OrderAt(i)), ch[i])], hs) :
                ch \in [1..n -> ColumnChanges \cup {NoChange}], hs \in {Undef, AppHeaders} } :
            n \in 0..max }

\* What the object stores hold after saveOrdersToDB(os, hs).
Stored(os, hs) == [kept |-> TRUE, orders |-> os, headers |-> hs]

\* The dates loadOrdersFromDB builds anew: "o.f ? new Date(o.f) : null".
ReloadedDateFields ==
    {"issueDate", "requestedDate", "dataTec", "felpoCruDate", "tinturariaDate",
     "confDate", "armExpDate", "dataEnt"}

\* One order as loadOrdersFromDB returns it: the stored order (a structured
\* clone keeps dates as dates and strings as strings) with eight date fields
\* rebuilt.
reloadedOrder(o) ==
    [f \in OrderFields |->
        IF f \in ReloadedDateFields
           THEN IF Truthy(o[f]) THEN NewDate(o[f]) ELSE Null
           ELSE o[f]]

\* loadOrdersFromDB(): null when no list is stored.
loadOrdersFromDB(st) ==
    IF ~st.kept THEN [status |-> "null", orders |-> <<>>, headers |-> EmptyObj]
    ELSE Resolved([i \in 1..Len(st.orders) |-> reloadedOrder(st.orders[i])],
                  OrElse(st.headers, EmptyObj))

InitIO ==
    /\ \/ orders \in OrderLists(MaxOrders) /\ file = NoFile
       \/ orders = <<>> /\ file \in ForeignFiles(MaxOrders)
    /\ exported = "none"
    /\ result = NoResult
    /\ IdleState
    /\ IdleNum
    /\ IdleStore /\ IdleImport /\ IdleExport /\ IdleKpi /\ IdleCustom

\* exportOrdersToExcel(orders): the workbook with the sheet is written.
ExportOrdersToExcel ==
    /\ file = NoFile
    /\ exported = "none"
    /\ file' = DataFile("xlsx", "export", excelSheet(orders), Undef)
    /\ exported' = "done"
    /\ UNCHANGED <<orders, result, stateVars, numVars, storeVars, importVars, exportVars,
                   kpiVars, customVars>>

\* exportOrdersToSQLite(orders, headers): a failing INSERT throws before
\* the commit and nothing is written; else the database bytes are written.
ExportOrdersToSQLite ==
    /\ file = NoFile
    /\ exported = "none"
    /\ IF InsertFails(orders)
          THEN /\ exported' = "failed"
               /\ file' = file
          ELSE /\ exported' = "done"
               /\ file' = DataFile("sqlite", "export", sqlTable(orders), AppHeaders)
    /\ UNCHANGED <<orders, result, stateVars, numVars, storeVars, importVars, exportVars,
                   kpiVars, customVars>>

\* parseDataFile(file) runs to its settled promise.
ParseDataFile ==
    /\ file # NoFile
    /\ result = NoResult
    /\ result' = parseDataFile(file)
    /\ UNCHANGED <<orders, file, exported, stateVars, numVars, storeVars, importVars,
                   exportVars, kpiVars, customVars>>

\* saveOrdersToDB(orders, headers) with the list the application holds:
\* the list it started with, or the list an import resolved with.
SaveOrdersToDB ==
    /\ stored = NotStored
    /\ \/ stored' = Stored(orders, AppHeaders)
       \/ /\ result.status = "resolved"
          /\ stored' = Stored(result.orders, result.headers)
    /\ UNCHANGED <<loaded, userStore, initCall, userOps, ioVars, stateVars, numVars,
                   importVars, exportVars, kpiVars, customVars>>

\* loadOrdersFromDB() runs to its settled promise.
LoadOrdersFromDB ==
    /\ loaded = NotLoaded
    /\ loaded' = loadOrdersFromDB(stored)
    /\ UNCHANGED <<stored, userStore, initCall, userOps, ioVars, stateVars, numVars,
                   importVars, exportVars, kpiVars, customVars>>

NextIO ==
    \/ ExportOrdersToExcel
    \/ ExportOrdersToSQLite
    \/ ParseDataFile
    \/ SaveOrdersToDB
    \/ LoadOrdersFromDB

SpecIO == InitIO /\ [][NextIO]_vars

----------------------------------------------------------------------------
(* Claims about the order state machine, checked under SpecState.          *)

\* Today at midnight, from the clock: the start of the clock's day.
Midnight == (clock \div MsPerDay) * MsPerDay

\* A due date is past when it is set and strictly earlier than Midnight.
Past(f) == order[f] # Null /\ order[f].v < Midnight

Qty(f) == order[f].v

ConfQty == Qty("confRoupoesQty") + Qty("confFelposQty")

CompletedRule ==
    Qty("qtyOpen") = 0 \/ (Qty("stockCxQty") >= Qty("qtyRequested") /\ Qty("qtyRequested") > 0)

LateRule ==
    \/ Past("dataTec") /\ Qty("felpoCruQty") < Qty("qtyRequested")
    \/ Past("felpoCruDate") /\ Qty("felpoCruQty") < Qty("qtyRequested")
    \/ Past("tinturariaDate") /\ ConfQty < Qty("qtyRequested")
    \/ Past("confDate") /\ Qty("embAcabQty") < Qty("qtyRequested")
    \/ Past("requestedDate") /\ Qty("qtyOpen") > 0

ProgressRule ==
    \E q \in {Qty("felpoCruQty"), Qty("tinturariaQty"), ConfQty, Qty("embAcabQty")} : q > 0

\* C1: getOrderState returns the first match of the decision list COMPLETED,
\* LATE, IN_PRODUCTION, OPEN; a due date is past only when strictly earlier
\* than today at midnight, so a due date of today never makes an order LATE
\* by itself, and a LATE condition wins over sector progress.
C1_DecisionList ==
    orderRet # NoRet =>
        /\ orderRet = (IF CompletedRule THEN "COMPLETED"
                       ELSE IF LateRule THEN "LATE"
                       ELSE IF ProgressRule THEN "IN_PRODUCTION"
                       ELSE "OPEN")
        /\ (orderRet = "LATE" =>
                \E f \in StateDateFields : order[f] # Null /\ order[f].v < Midnight)
        /\ (~CompletedRule /\ LateRule /\ ProgressRule => orderRet = "LATE")

\* C1 witness: an order with sector progress, one due date exactly at today's
\* midnight and another in the past has been classified LATE.
C1_Witness ==
    /\ orderRet = "LATE"
    /\ ProgressRule
    /\ \E f \in StateDateFields : order[f] = DateV(Midnight)
    /\ \E f \in StateDateFields : Past(f)

\* C2: an order with qtyOpen = 0 is COMPLETED whatever its other fields are.
C2_ZeroOpenCompleted ==
    (orderRet # NoRet /\ Qty("qtyOpen") = 0) => orderRet = "COMPLETED"

\* C2 witness: qtyOpen = 0 with a passed due date and a requested quantity
\* that no sector has reached, classified.
C2_Witness ==
    /\ orderRet # NoRet
    /\ Qty("qtyOpen") = 0
    /\ Past("dataTec")
    /\ Qty("felpoCruQty") < Qty("qtyRequested")

AllDatesNull == \A f \in dateFields \cup {"archivedAt"} : order[f] = Null

\* C3 as stated: every date null and every quantity 0 gives OPEN.
C3_AllZeroOpen ==
    (orderRet # NoRet /\ AllDatesNull /\ \A f \in QtyFields : Qty(f) = 0)
        => orderRet = "OPEN"

\* C3 amended: every date null and every quantity except qtyOpen 0, with
\* qtyOpen > 0, gives OPEN; with qtyOpen = 0 too the order is COMPLETED.
C3_NoProgressOpen ==
    (orderRet # NoRet /\ AllDatesNull /\ \A f \in QtyFields \ {"qtyOpen"} : Qty(f) = 0)
        => orderRet = (IF Qty("qtyOpen") > 0 THEN "OPEN" ELSE "COMPLETED")

\* C3 witness: such an order with an open quantity has been classified.
C3_Witness ==
    /\ orderRet = "OPEN"
    /\ AllDatesNull
    /\ \A f \in QtyFields \ {"qtyOpen"} : Qty(f) = 0
    /\ Qty("qtyOpen") > 0

\* C4: stockCxQty >= qtyRequested > 0 gives COMPLETED whatever qtyOpen and
\* the due dates are; so a COMPLETED expedicao sector means a COMPLETED order.
C4_StockCompleted ==
    orderRet # NoRet =>
        /\ (Qty("qtyRequested") > 0 /\ Qty("stockCxQty") >= Qty("qtyRequested")
                => orderRet = "COMPLETED")
        /\ (sectorRet["expedicao"] = "COMPLETED" => orderRet = "COMPLETED")

\* C4 witness: both functions ran on an order with open quantity, a passed
\* requested date and enough stock.
C4_Witness ==
    /\ orderRet = "COMPLETED"
    /\ sectorRet["expedicao"] = "COMPLETED"
    /\ Qty("qtyOpen") > 0
    /\ Past("requestedDate")

\* The quantity the claim assigns to each sector.
SectorQuantity(s) ==
    IF s \in {"tecelagem", "felpo_cru"} THEN Qty("felpoCruQty")
    ELSE IF s = "tinturaria" THEN Qty("tinturariaQty")
    ELSE IF s = "confeccao" THEN ConfQty
    ELSE IF s = "embalagem" THEN Qty("embAcabQty")
    ELSE Qty("stockCxQty")

\* C5: per sector, COMPLETED iff qtyRequested > 0 and the sector's quantity
\* >= qtyRequested, else IN_PROGRESS iff the quantity > 0, else NOT_STARTED;
\* tecelagem and felpo_cru agree; qtyRequested = 0 is never COMPLETED.
C5_SectorState ==
    sectorRet # NoSectorRet =>
        /\ \A s \in SectorIds :
            /\ sectorRet[s] = "COMPLETED" <=>
                 (Qty("qtyRequested") > 0 /\ SectorQuantity(s) >= Qty("qtyRequested"))
            /\ sectorRet[s] = "IN_PROGRESS" <=>
                 (sectorRet[s] # "COMPLETED" /\ SectorQuantity(s) > 0)
            /\ sectorRet[s] = "NOT_STARTED" <=>
                 (sectorRet[s] # "COMPLETED" /\ SectorQuantity(s) <= 0)
        /\ sectorRet["tecelagem"] = sectorRet["felpo_cru"]
        /\ (Qty("qtyRequested") = 0 => \A s \in SectorIds : sectorRet[s] # "COMPLETED")

\* C5 witness: confeccao is COMPLETED by the sum of two quantities neither of
\* which reaches qtyRequested alone.
C5_Witness ==
    /\ sectorRet["confeccao"] = "COMPLETED"
    /\ Qty("confRoupoesQty") > 0 /\ Qty("confRoupoesQty") < Qty("qtyRequested")
    /\ Qty("confFelposQty") > 0 /\ Qty("confFelposQty") < Qty("qtyRequested")

----------------------------------------------------------------------------
(* Claims about parseNumber, checked under SpecNum.                        *)

\* Every occurrence of the character c in s replaced by d.
ReplaceEvery(s, c, d) == [i \in 1..Len(s) |-> IF s[i] = c THEN d ELSE s[i]]

\* The part of s after its last '.' has exactly three characters.
ThreeAfterLastDot(s) ==
    \E i \in 1..Len(s) :
        /\ s[i] = "."
        /\ \A j \in (i + 1)..Len(s) : s[j] # "."
        /\ Len(s) - i = 3

\* The text the four-rule policy hands to the float parser.
PolicyText(s) ==
    IF Includes(s, ",") /\ Includes(s, ".")
        THEN ReplaceEvery(RemoveAll(s, "."), ",", ".")
    ELSE IF Includes(s, ",") THEN ReplaceEvery(s, ",", ".")
    ELSE IF Includes(s, ".") /\ ThreeAfterLastDot(s) THEN RemoveAll(s, ".")
    ELSE s

\* The result the policy gives for the raw value x when its string is read as t.
PolicyResult(x, t) ==
    IF x.k \in {"num", "dec", "nan"} THEN x
    ELSE IF x.k \in {"undef", "null"} \/ t = <<>> THEN Num(0)
    ELSE IF parseFloat(PolicyText(t)) = NaN THEN Num(0)
    ELSE parseFloat(PolicyText(t))

RECURSIVE StripLeft(_)
StripLeft(s) == IF s # <<>> /\ Head(s) = " " THEN StripLeft(Tail(s)) ELSE s

RECURSIVE StripRight(_)
StripRight(s) ==
    IF s # <<>> /\ s[Len(s)] = " " THEN StripRight(SubSeq(s, 1, Len(s) - 1)) ELSE s

\* C8 as stated: the policy applied to the string as given.
C8_PolicyOnRawString ==
    numOut # NotCalled =>
        numOut = PolicyResult(numIn, IF numIn.k = "str" THEN numIn.v ELSE <<>>)

\* C8 amended: parseNumber follows the four-rule policy on the string with
\* its leading and trailing white space removed; a string without a leading
\* number gives 0; the five documented examples give the documented values.
C8_PolicyOnTrimmedString ==
    numOut # NotCalled =>
        /\ numOut = PolicyResult(numIn, IF numIn.k = "str"
                                           THEN StripRight(StripLeft(numIn.v))
                                           ELSE <<>>)
        /\ (numIn.k = "str" /\ (\A i \in 1..Len(numIn.v) : numIn.v[i] \notin DigitChars)
                => numOut = Num(0))
        /\ (numIn = Str(<<"1", ".", "2", "3", "4", ",", "5", "6">>) => numOut = Dec(123456, 2))
        /\ (numIn = Str(<<"1", ",", "5">>) => numOut = Dec(15, 1))
        /\ (numIn = Str(<<"1", ".", "5", "0", "0">>) => numOut = Num(1500))
        /\ (numIn = Str(<<>>) => numOut = Num(0))
        /\ (numIn = Undef => numOut = Num(0))

\* C8 witness: a string with both separators and more than one ',' was
\* parsed to a non-zero number.
C8_Witness ==
    /\ numOut \notin {NotCalled, Num(0)}
    /\ numIn.k = "str"
    /\ Includes(numIn.v, ".")
    /\ Cardinality({i \in 1..Len(numIn.v) : numIn.v[i] = ","}) > 1

----------------------------------------------------------------------------
(* Claims about the import and export paths, checked under SpecIO.         *)

\* Two field values are equal, dates to the precision of a day.
SameToDay(a, b) ==
    IF a.k = "date" /\ b.k = "date" THEN a.v \div MsPerDay = b.v \div MsPerDay ELSE a = b

\* The import of the file the export wrote has settled.
RoundTripDone(kind) ==
    file.kind = kind /\ file.origin = "export" /\ result # NoResult

\* C6: exporting a non-empty order list to the spreadsheet and importing
\* the written sheet yields as many orders, in the same order, each equal to
\* its original on every field of the column contract (dates to the day).
C6_ExcelRoundTrip ==
    (RoundTripDone("xlsx") /\ orders # <<>>) =>
        /\ result.status = "resolved"
        /\ Len(result.orders) = Len(orders)
        /\ \A i \in 1..Len(orders) : \A f \in OrderFields :
              SameToDay(result.orders[i][f], orders[i][f])

\* C7: exporting an order list to the embedded database and importing the
\* written bytes yields orders equal to the originals on all 45 fields, dates
\* as date values with the same timestamp, null dates null, booleans
\* booleans, predicted dates as date values.
C7_SqliteRoundTrip ==
    RoundTripDone("sqlite") =>
        /\ result.status = "resolved"
        /\ Len(result.orders) = Len(orders)
        /\ \A i \in 1..Len(orders) : \A f \in OrderFields :
              result.orders[i][f] = orders[i][f]

\* The text of a cell, lower-cased.
CellText(x) == IF x.k \in {"null", "undef"} THEN <<>> ELSE toLowerCase(ToChars(x))

\* A sheet row the claim says is imported: column B is non-empty and its
\* text does not contain "doc".
Importable(row) ==
    /\ CellText(row["B"]) # <<>>
    /\ ~\E i \in 1..(Len(CellText(row["B"])) - 2) :
            SubSeq(CellText(row["B"]), i, i + 2) = <<"d", "o", "c">>

\* The rows of the sheet after the first that are importable, in order.
ImportableRows == SelectSeq(Tail(file.rows), Importable)

\* C9: the spreadsheet import returns, in source order, exactly one order
\* for each row after the first whose column B is non-empty and does not
\* contain "doc"; the first row is always discarded; a skipped row neither
\* fails the import nor changes the orders of the other rows.
C9_RowsImported ==
    (file.kind = "xlsx" /\ file.rows # <<>> /\ result # NoResult) =>
        /\ result.status = "resolved"
        /\ Len(result.orders) = Len(ImportableRows)
        /\ \A i \in 1..Len(result.orders) :
              result.orders[i]["docNr"] = Str(StripRight(StripLeft(ToChars(ImportableRows[i]["B"]))))

\* The stored JSON value of a sector mapping is missing or malformed.
MissingOrMalformed(x) == x.k \in {"undef", "null", "badjson"} \/ x = Str(<<>>)

\* The column of a sheet that holds the sector mapping f.
MapColumn(f) ==
    IF f = "sectorObservations" THEN "AH"
    ELSE IF f = "sectorPredictedDates" THEN "AI" ELSE "AJ"

\* The rows of the file that the import turns into orders, in order.
SourceRows ==
    IF file.kind = "sqlite" THEN file.rows ELSE ImportableRows

\* The stored value of the sector mapping f in a source row.
StoredMap(row, f) == IF file.kind = "sqlite" THEN row[f] ELSE row[MapColumn(f)]

\* C10: on both import paths a missing or malformed JSON value in a sector
\* mapping field becomes an empty mapping and never fails the import; the
\* other rows are imported.
C10_BadJsonTolerated ==
    (file # NoFile /\ file.rows # <<>> /\ result # NoResult) =>
        /\ result.status = "resolved"
        /\ Len(result.orders) = Len(SourceRows)
        /\ \A i \in 1..Len(result.orders) : \A f \in MapFields :
              MissingOrMalformed(StoredMap(SourceRows[i], f))
                  => result.orders[i][f] = EmptyObj

----------------------------------------------------------------------------
(* What does hold on the import and export paths.                          *)

\* Orders that differ from the minimal imported order only in document
\* number and id survive the spreadsheet round trip.
ExcelRoundTripOfBaseOrders ==
    (RoundTripDone("xlsx") /\ \A i \in 1..Len(orders) : orders[i] = OrderAt(i))
        => C6_ExcelRoundTrip

\* The same orders survive the embedded-database round trip.
SqliteRoundTripOfBaseOrders ==
    (RoundTripDone("sqlite") /\ \A i \in 1..Len(orders) : orders[i] = OrderAt(i))
        => C7_SqliteRoundTrip

\* When JSON.parse throws on no row, the rows are imported as C9 states.
RowsImportedWithoutBadJson ==
    (file.kind = "xlsx" /\ \A i \in 1..Len(file.rows) : ~RowThrows(file.rows[i]))
        => C9_RowsImported

\* A database whose sector mapping columns are never NULL is imported as
\* C10 states: malformed JSON becomes an empty mapping there.
SqliteStoredMapsTolerated ==
    (file.kind = "sqlite"
        /\ \A i \in 1..Len(file.rows) : \A f \in MapFields : file.rows[i][f].k # "null")
        => C10_BadJsonTolerated

----------------------------------------------------------------------------
(* Specification SpecImport: one parseDataFile call, event by event. The   *)
(* call starts the FileReader, which later fires "load" when the bytes     *)
(* were read and "error" when they could not be read.                      *)

\* What reading the file can meet: its bytes are read and decoded, cannot
\* be read, or are read but hold no workbook or database.
Media == {"ok", "unreadable", "corrupt"}

\* reader.onload: decoding bytes that hold no workbook (XLSX.read) or no
\* database (db.exec) throws inside the try, and the catch rejects.
OnLoad(f, m) == IF m = "corrupt" THEN Rejected ELSE parseDataFile(f)

\* reader.onerror: parseExcelFile rejects; parseSQLiteFile sets no handler
\* and its promise stays as it is.
OnError(f, res) == IF f.kind = "sqlite" THEN res ELSE Rejected

InitImport ==
    /\ file \in ForeignFiles(MaxRead)
    /\ medium \in Media
    /\ reader = "idle"
    /\ orders = <<>>
    /\ exported = "none"
    /\ result = NoResult
    /\ IdleState
    /\ IdleNum
    /\ IdleStore /\ IdleExport /\ IdleKpi /\ IdleCustom

\* parseDataFile(file) up to reader.readAsArrayBuffer(file).
StartParseDataFile ==
    /\ reader = "idle"
    /\ reader' = "reading"
    /\ UNCHANGED <<medium, ioVars, stateVars, numVars, storeVars, exportVars, kpiVars, customVars>>

\* The "load" event of the FileReader.
ReaderLoad ==
    /\ reader = "reading"
    /\ medium # "unreadable"
    /\ reader' = "loaded"
    /\ result' = OnLoad(file, medium)
    /\ UNCHANGED <<medium, orders, file, exported, stateVars, numVars, storeVars, exportVars,
                   kpiVars, customVars>>

\* The "error" event of the FileReader.
ReaderError ==
    /\ reader = "reading"
    /\ medium = "unreadable"
    /\ reader' = "failed"
    /\ result' = OnError(file, result)
    /\ UNCHANGED <<medium, orders, file, exported, stateVars, numVars, storeVars, exportVars,
                   kpiVars, customVars>>

NextImport ==
    \/ StartParseDataFile
    \/ ReaderLoad
    \/ ReaderError

\* The browser delivers the event of a started read.
SpecImport ==
    InitImport /\ [][NextImport]_vars /\ WF_vars(ReaderLoad) /\ WF_vars(ReaderError)

----------------------------------------------------------------------------
(* Claims about the import call, checked under SpecImport.                 *)

\* C11: every import call eventually settles, resolved or rejected; when
\* the file cannot be read or decoded the call ends rejected, and never
\* stays pending.
C11_ImportSettles ==
    /\ (reader = "reading") ~> (result.status \in {"resolved", "rejected"})
    /\ []((reader \in {"loaded", "failed"} /\ medium # "ok") => result.status = "rejected")

\* The spreadsheet path does settle, and rejects unreadable and undecodable
\* files.
ExcelImportSettles ==
    /\ (reader = "reading" /\ file.kind = "xlsx") ~> (result.status \in {"resolved", "rejected"})
    /\ []((reader \in {"loaded", "failed"} /\ medium # "ok" /\ file.kind = "xlsx")
            => result.status = "rejected")

\* The database path settles whenever the bytes could be read.
SqliteImportSettlesWhenRead ==
    (reader = "reading" /\ file.kind = "sqlite" /\ medium # "unreadable")
        ~> (result.status \in {"resolved", "rejected"})

----------------------------------------------------------------------------
(* Specification SpecExport: one exportOrdersToSQLite call, step by step:  *)
(* the transaction is opened, the orders are inserted one by one, the      *)
(* transaction is committed, and the bytes are delivered.                  *)

\* verifyPermission without the requestPermission call.
verifyPermissionQueryOnly(h) ==
    IF ~h.given THEN FALSE
    ELSE h.query = "granted"

\* verifyPermission(handle, true): an absent handle and an exception of
\* queryPermission or requestPermission give false.
verifyPermission(h) ==
    IF ~h.given THEN FALSE
    ELSE IF h.query = "throws" THEN FALSE
    ELSE IF h.query = "granted" THEN TRUE
    ELSE IF h.request = "throws" THEN FALSE
    ELSE h.request = "granted"

\* The directory handles: what queryPermission and requestPermission
\* answer, and whether creating and writing the file goes through.
Handles ==
    {NoHandle} \cup
    [given : {TRUE}, query : {"granted", "prompt", "denied", "throws"},
     request : {"granted", "denied", "throws"}, write : {"ok", "fails"}]

\* The id of the row is already in the orders table (id TEXT PRIMARY KEY).
KeyTaken(rows, r) == r.id # Null /\ \E i \in 1..Len(rows) : rows[i].id = r.id

\* stmt.run as INSERT OR IGNORE: a row with a taken id is left out.
InsertRowOrIgnore(d, r) ==
    IF KeyTaken(d.rows, r) THEN [d EXCEPT !.next = d.next + 1]
    ELSE [d EXCEPT !.rows = Append(d.rows, r), !.next = d.next + 1]

\* stmt.run(...) for one order: the row is added, or the statement throws.
InsertRow(d, r) ==
    IF KeyTaken(d.rows, r) THEN [d EXCEPT !.txn = "failed"]
    ELSE [d EXCEPT !.rows = Append(d.rows, r), !.next = d.next + 1]

\* db.export() of the committed database.
Bytes(d) == DataFile("sqlite", "export", d.rows, AppHeaders)

\* The file getFileHandle(fileName, {create: true}) leaves when the write
\* after it fails.
EmptyFile == DataFile("empty", "export", <<>>, Undef)

\* The order lists of the call: orders may share an id.
ExportLists(max) ==
    UNION { { [i \in 1..n |-> Changed(OrderAt(i), ch[i])] :
                ch \in [1..n -> {NoChange, <<"id", OrderAt(1)["id"]>>,
                                 <<"issueDate", DateV(0)>>}] } : n \in 0..max }

InitExport ==
    /\ orders \in ExportLists(MaxOrders)
    /\ handle \in Handles
    /\ pc = "idle"
    /\ sqlDb = NoDb
    /\ dirFile = NoFile
    /\ download = NoFile
    /\ outcome = "pending"
    /\ file = NoFile
    /\ exported = "none"
    /\ result = NoResult
    /\ IdleState
    /\ IdleNum
    /\ IdleStore /\ IdleImport /\ IdleKpi /\ IdleCustom

\* new SQL.Database(), the two CREATE TABLE and "BEGIN TRANSACTION".
BeginExport ==
    /\ pc = "idle"
    /\ pc' = "inserting"
    /\ sqlDb' = [txn |-> "open", rows |-> <<>>, next |-> 1]
    /\ UNCHANGED <<handle, dirFile, download, outcome, ioVars, stateVars, numVars, storeVars,
                   importVars, kpiVars, customVars>>

\* One turn of orders.forEach: the exception of a failing INSERT leaves
\* the function and rejects its promise.
InsertOrder ==
    /\ pc = "inserting"
    /\ sqlDb.next <= Len(orders)
    /\ LET d == InsertRow(sqlDb, sqlRow(orders[sqlDb.next]))
       IN  /\ sqlDb' = d
           /\ IF d.txn = "failed"
                 THEN pc' = "done" /\ outcome' = "rejected"
                 ELSE UNCHANGED <<pc, outcome>>
    /\ UNCHANGED <<handle, dirFile, download, ioVars, stateVars, numVars, storeVars,
                   importVars, kpiVars, customVars>>

\* stmt.free(), "COMMIT" and db.export().
CommitExport ==
    /\ pc = "inserting"
    /\ sqlDb.next > Len(orders)
    /\ sqlDb' = [sqlDb EXCEPT !.txn = "committed"]
    /\ pc' = "built"
    /\ UNCHANGED <<handle, dirFile, download, outcome, ioVars, stateVars, numVars, storeVars,
                   importVars, kpiVars, customVars>>

\* The branch "if (hasPermission)": the file is written and the function
\* returns; an exception on the way is caught and the download follows.
WriteToDirectory ==
    /\ pc = "built"
    /\ handle.given
    /\ verifyPermission(handle)
    /\ IF handle.write = "ok"
          THEN /\ dirFile' = Bytes(sqlDb)
               /\ download' = download
          ELSE /\ dirFile' \in {dirFile, EmptyFile}
               /\ download' = Bytes(sqlDb)
    /\ pc' = "done"
    /\ outcome' = "resolved"
    /\ UNCHANGED <<sqlDb, handle, ioVars, stateVars, numVars, storeVars, importVars, kpiVars,
                   customVars>>

\* No handle or no permission: the blob is downloaded through a link.
DownloadFile ==
    /\ pc = "built"
    /\ ~(handle.given /\ verifyPermission(handle))
    /\ download' = Bytes(sqlDb)
    /\ pc' = "done"
    /\ outcome' = "resolved"
    /\ UNCHANGED <<sqlDb, handle, dirFile, ioVars, stateVars, numVars, storeVars, importVars,
                   kpiVars, customVars>>

NextExport ==
    \/ BeginExport
    \/ InsertOrder
    \/ CommitExport
    \/ WriteToDirectory
    \/ DownloadFile

SpecExport == InitExport /\ [][NextExport]_vars

----------------------------------------------------------------------------
(* Claims about the database export, checked under SpecExport.             *)

\* The file holds the bytes of a database.
HasBytes(f) == f.kind = "sqlite"

\* C12: an output file (directory or download) exists only after every
\* order was inserted and the transaction committed, and then holds all the
\* orders; when a step before the commit fails the call ends rejected with
\* no output file, and no partly inserted order set is in any file.
C12_AllOrNothing ==
    /\ \A f \in {dirFile, download} :
          HasBytes(f) => /\ sqlDb.txn = "committed"
                         /\ pc = "done"
                         /\ f.rows = sqlTable(orders)
    /\ sqlDb.txn \in {"none", "open", "failed"} => dirFile = NoFile /\ download = NoFile
    /\ (pc = "done" /\ InsertFails(orders)) =>
          outcome = "rejected" /\ dirFile = NoFile /\ download = NoFile
    /\ (pc = "done" /\ ~InsertFails(orders)) => HasBytes(dirFile) \/ HasBytes(download)

\* C12 witness: the second INSERT failed on a duplicate id after the first
\* row was inserted, and no file exists.
C12_Witness ==
    /\ pc = "done"
    /\ outcome = "rejected"
    /\ Len(sqlDb.rows) >= 1
    /\ dirFile = NoFile
    /\ download = NoFile

\* The permission is granted by queryPermission, or by requestPermission
\* when the query did not grant it.
Granted(h) ==
    \/ h.query = "granted"
    \/ h.query \in {"prompt", "denied"} /\ h.request = "granted"

\* C13: once the bytes are built they are delivered through exactly one
\* channel: the directory when a handle is given, permission is granted and
\* the write completes, else the download; a denial or a write error never
\* rejects the call, and a directory write is never followed by a download.
C13_OneChannel ==
    (pc = "done" /\ sqlDb.txn = "committed") =>
        /\ outcome = "resolved"
        /\ HasBytes(dirFile) # HasBytes(download)
        /\ HasBytes(dirFile) <=> (handle.given /\ Granted(handle) /\ handle.write = "ok")

\* C13 witness: the handle was given, the permission was denied after the
\* request, and the file was downloaded.
C13_Witness ==
    /\ pc = "done"
    /\ handle.given
    /\ handle.query = "prompt"
    /\ handle.request = "denied"
    /\ HasBytes(download)
    /\ dirFile = NoFile
    /\ outcome = "resolved"

----------------------------------------------------------------------------
(* Claims about the load paths, checked under SpecIO.                      *)

\* Every value of the sectorPredictedDates of every order of the list is a
\* date value.
AllPredictedAreDates(os) ==
    \A i \in 1..Len(os) :
        LET m == os[i]["sectorPredictedDates"]
        IN  m.k = "obj" => \A s \in DOMAIN m.v : m.v[s].k = "date"

\* C14: after any load path (spreadsheet import, database import, reload
\* from local persistence) every value present in sectorPredictedDates is a
\* date value, whatever the stored value was.
C14_PredictedDatesHydrated ==
    /\ result.status = "resolved" => AllPredictedAreDates(result.orders)
    /\ loaded.status = "resolved" => AllPredictedAreDates(loaded.orders)

\* The stored value of a predicted date is an ISO date string.
IsoOnly(x) ==
    x.k = "json" => (x.v.k = "obj" => \A s \in DOMAIN x.v.v : x.v.v[s].k = "iso")

\* When every stored predicted date is an ISO date string, both imports
\* return date values for them.
PredictedDatesHydratedFromIso ==
    (file # NoFile /\ result.status = "resolved"
        /\ \A i \in 1..Len(file.rows) :
              IsoOnly(file.rows[i][IF file.kind = "sqlite" THEN "sectorPredictedDates" ELSE "AI"]))
        => AllPredictedAreDates(result.orders)

----------------------------------------------------------------------------
(* Specification SpecKPI: calculateKPIs applied to an order list on a      *)
(* current date. Local time is modelled with no offset to UTC; the dates   *)
(* lie in December 1969 and January 1970, on both sides of the epoch.      *)

\* getDay() of 1 January 1970: a Thursday.
EpochWeekday == 4

\* The number of days of December, the month that ends at the epoch.
DecemberLen == 31

\* The day number of a timestamp.
DayOf(t) == t \div MsPerDay

\* Date.getDay() of a day: 0 is Sunday, 1 is Monday.
getDay(d) == (d + EpochWeekday) % 7

\* The first day of the month a day lies in (December 1969 or January
\* 1970).
MonthStart(d) == IF d < 0 THEN 0 - DecemberLen ELSE 0

\* Date.getDate(): the day of the month, from 1.
getDate(d) == d - MonthStart(d) + 1

\* Date.setDate(n) on a date of day d: the n-th day counted from the start
\* of d's month; n below 1 or beyond the month's end moves into the
\* neighbouring month.
setDate(d, n) == MonthStart(d) + n - 1

\* getWeekRange without the case "day === 0 ? -6".
getWeekRangeSundayAhead(t) ==
    LET current  == DayOf(StartOfDay(t))
        day      == getDay(current)
        diff     == getDate(current) - day + 1
        startDay == setDate(current, diff)
        endDay   == setDate(startDay, getDate(startDay) + 6)
    IN  [start |-> startDay * MsPerDay, end |-> endDay * MsPerDay + (MsPerDay - 1)]

\* getWeekRange(date): the week's first and last millisecond.
getWeekRange(t) ==
    LET current  == DayOf(StartOfDay(t))
        day      == getDay(current)
        diff     == getDate(current) - day + (IF day = 0 THEN -6 ELSE 1)
        startDay == setDate(current, diff)
        endDay   == setDate(startDay, getDate(startDay) + 6)
    IN  [start |-> startDay * MsPerDay, end |-> endDay * MsPerDay + (MsPerDay - 1)]

\* "dateToCheck && dateToCheck >= weekStart && dateToCheck <= weekEnd"
IsThisWeek(o, week) ==
    LET dateToCheck == OrElse(o["requestedDate"], o["armExpDate"])
    IN  /\ Truthy(dateToCheck)
        /\ dateToCheck.k = "date"
        /\ dateToCheck.v >= week.start
        /\ dateToCheck.v <= week.end

\* The filter of completedThisWeek with the order state alone.
IsFulfilledWhenCompleted(o, clk) == getOrderState(o, clk) = "COMPLETED"

\* The filter of completedThisWeek.
IsFulfilled(o, clk) ==
    \/ getOrderState(o, clk) = "COMPLETED"
    \/ getSectorState(o, "expedicao") = "COMPLETED"
    \/ getSectorState(o, "expedicao") = "IN_PROGRESS"

\* The number c / n * 100: a whole number, or the fraction 100c / n.
Percent(c, n) ==
    IF (100 * c) % n = 0 THEN Num((100 * c) \div n)
    ELSE [k |-> "frac", v |-> <<100 * c, n>>]

\* "(completedThisWeek / deliveriesThisWeek) * 100" with no test before it:
\* 0 / 0 is NaN.
fulfillmentRateUnguarded(c, n) == IF n = 0 THEN NaN ELSE Percent(c, n)

\* "deliveriesThisWeek > 0 ? (completedThisWeek / deliveriesThisWeek) * 100 : 0"
fulfillmentRate(c, n) == IF n > 0 THEN Percent(c, n) ELSE Num(0)

\* The positions of the list that pass a test.
Filter(os, Test(_)) == {i \in 1..Len(os) : Test(os[i])}

\* The document numbers of all the orders.
uniqueDocs(os) == {os[i]["docNr"] : i \in 1..Len(os)}

\* "new Set(activeOrders.map(o => o.docNr))"
uniqueActiveDocs(os) ==
    {os[i]["docNr"] : i \in Filter(os, LAMBDA o : o["qtyOpen"].v > 0)}

\* "orders.reduce((acc, o) => acc + o[f], 0)"
RECURSIVE SumOf(_, _)
SumOf(os, f) == IF os = <<>> THEN 0 ELSE os[1][f].v + SumOf(Tail(os), f)

\* calculateKPIs(orders) on the current date clk.
calculateKPIs(os, clk) ==
    LET week           == getWeekRange(clk)
        activeOrders   == Filter(os, LAMBDA o : o["qtyOpen"].v > 0)
        late           == Filter(os, LAMBDA o : getOrderState(o, clk) = "LATE")
        ordersThisWeek == Filter(os, LAMBDA o : IsThisWeek(o, week))
        completedThisWeek == {i \in ordersThisWeek : IsFulfilled(os[i], clk)}
    IN  [called             |-> TRUE,
         weekStart          |-> week.start,
         weekEnd            |-> week.end,
         totalActiveDocs    |-> Cardinality(uniqueActiveDocs(os)),
         totalLate          |-> Cardinality(late),
         deliveriesThisWeek |-> Cardinality(ordersThisWeek),
         fulfillmentRateWeek |->
             fulfillmentRate(Cardinality(completedThisWeek), Cardinality(ordersThisWeek)),
         totalInProduction  |-> Cardinality(activeOrders),
         billed             |-> SumOf(os, "qtyBilled"),
         open               |-> SumOf(os, "qtyOpen")]

\* The current dates: Monday 29 December 1969 to Monday 5 January 1970.
KpiDays == (1 - EpochWeekday)..(8 - EpochWeekday)

KpiClocks == { d * MsPerDay + t : d \in KpiDays, t \in {0, MsPerDay - 1} }

\* The dates of the orders: the first and last millisecond of each day from
\* Sunday 28 December 1969 to Monday 5 January 1970.
KpiDates ==
    { DateV(d * MsPerDay + t) : d \in (0 - EpochWeekday)..(8 - EpochWeekday), t \in {0, MsPerDay - 1} }

\* Wednesday 31 December 1969, noon.
MidWeek == DateV(0 - MsPerDay \div 2)

\* The i-th order with its two delivery dates and two quantities set.
KpiOrder(i, rd, ad, qo, st, doc) ==
    [OrderAt(i) EXCEPT !["requestedDate"] = rd, !["armExpDate"] = ad,
                       !["qtyOpen"] = Num(qo), !["qtyBilled"] = Num(MaxQty - qo),
                       !["stockCxQty"] = Num(st), !["docNr"] = OrderAt(doc)["docNr"]]

\* The orders of the one-order lists.
SingleOrders ==
    { KpiOrder(1, dd[1], dd[2], qo, st, 1) :
        dd \in (({Null} \cup KpiDates) \X {Null, MidWeek}) \cup ({Null} \X KpiDates),
        qo \in 0..MaxQty, st \in 0..MaxQty }

\* The orders of the longer lists: without a date or due in mid week,
\* completed, with stock or with none, of its own or of the first document.
ListOrders(i) ==
    { KpiOrder(i, Null, Null, MaxQty, 0, i),
      KpiOrder(i, MidWeek, Null, 0, 0, i),
      KpiOrder(i, MidWeek, Null, MaxQty, 1, 1),
      KpiOrder(i, Null, MidWeek, MaxQty, 0, 1) }

KpiLists(max) ==
    {<<>>} \cup { <<o>> : o \in SingleOrders }
    \cup UNION { {os \in [1..n -> UNION {ListOrders(i) : i \in 1..n}] :
                     \A i \in 1..n : os[i] \in ListOrders(i)} : n \in 2..max }

InitKPI ==
    /\ orders \in KpiLists(MaxOrders)
    /\ clock \in KpiClocks
    /\ kpis = NoKpis
    /\ order = BaseOrder
    /\ orderRet = NoRet
    /\ sectorRet = NoSectorRet
    /\ file = NoFile
    /\ exported = "none"
    /\ result = NoResult
    /\ IdleNum
    /\ IdleStore /\ IdleImport /\ IdleExport /\ IdleCustom

CallCalculateKPIs ==
    /\ ~kpis.called
    /\ kpis' = calculateKPIs(orders, clock)
    /\ UNCHANGED <<ioVars, stateVars, numVars, storeVars, importVars, exportVars, customVars>>

NextKPI == CallCalculateKPIs

SpecKPI == InitKPI /\ [][NextKPI]_vars

----------------------------------------------------------------------------
(* Claims about the KPI aggregation, checked under SpecKPI.                *)

\* The Monday of the week (Monday to Sunday) a day lies in.
MondayOf(d) == d - ((d + EpochWeekday + 6) % 7)

\* The delivery date of an order: requestedDate, or armExpDate when
\* requestedDate is null.
DueDate(o) == IF o["requestedDate"] = Null THEN o["armExpDate"] ELSE o["requestedDate"]

\* The delivery date lies in the week of the current date, ends included.
DueThisWeek(o, clk) ==
    LET weekStart == MondayOf(DayOf(clk)) * MsPerDay
        weekEnd   == weekStart + 7 * MsPerDay - 1
    IN  /\ DueDate(o).k = "date"
        /\ weekStart <= DueDate(o).v
        /\ DueDate(o).v <= weekEnd

\* The positions of the orders due this week.
ThisWeek == {i \in 1..Len(orders) : DueThisWeek(orders[i], clock)}

\* C15: deliveriesThisWeek counts exactly the orders whose requestedDate (or
\* armExpDate when requestedDate is null) lies, ends included, in the week
\* of the current date; the week starts on a Monday at 00:00:00.000, ends on
\* the following Sunday at 23:59:59.999, contains the current date, and
\* starts 6 days earlier when the current date is a Sunday; an order with
\* both dates null is never counted.
C15_DeliveriesThisWeek ==
    kpis.called =>
        /\ kpis.deliveriesThisWeek = Cardinality(ThisWeek)
        /\ getDay(DayOf(kpis.weekStart)) = 1
        /\ kpis.weekStart % MsPerDay = 0
        /\ getDay(DayOf(kpis.weekEnd)) = 0
        /\ kpis.weekEnd = kpis.weekStart + 7 * MsPerDay - 1
        /\ kpis.weekStart <= clock
        /\ clock <= kpis.weekEnd
        /\ getDay(DayOf(clock)) = 0 => DayOf(kpis.weekStart) = DayOf(clock) - 6
        /\ \A i \in 1..Len(orders) :
              (orders[i]["requestedDate"] = Null /\ orders[i]["armExpDate"] = Null)
                  => i \notin ThisWeek

\* C15 witness: on a Sunday, an order with no requestedDate whose armExpDate
\* is the first millisecond of the Monday six days before was counted.
C15_Witness ==
    /\ kpis.called
    /\ getDay(DayOf(clock)) = 0
    /\ Len(orders) = 1
    /\ orders[1]["requestedDate"] = Null
    /\ orders[1]["armExpDate"] = DateV((DayOf(clock) - 6) * MsPerDay)
    /\ kpis.deliveriesThisWeek = 1

\* The positions of the orders due this week that count as fulfilled.
FulfilledThisWeek ==
    {i \in ThisWeek :
        \/ getOrderState(orders[i], clock) = "COMPLETED"
        \/ getSectorState(orders[i], "expedicao") \in {"COMPLETED", "IN_PROGRESS"}}

\* The rate r is the number 100 * c / n.
RateIs(r, c, n) ==
    \/ r.k = "num" /\ r.v * n = 100 * c
    \/ r.k = "frac" /\ r.v[1] * n = 100 * c * r.v[2]

\* The rate r lies between 0 and 100.
RateInRange(r) ==
    \/ r.k = "num" /\ 0 <= r.v /\ r.v <= 100
    \/ r.k = "frac" /\ r.v[2] > 0 /\ 0 <= r.v[1] /\ r.v[1] <= 100 * r.v[2]

\* C16: fulfillmentRateWeek is 100 times the number of this-week orders that
\* are COMPLETED or whose expedicao sector is COMPLETED or IN_PROGRESS,
\* divided by the number of this-week orders, and 0 when there are none; it
\* is a number between 0 and 100.
C16_FulfillmentRate ==
    kpis.called =>
        /\ ThisWeek = {} => kpis.fulfillmentRateWeek = Num(0)
        /\ ThisWeek # {} =>
              RateIs(kpis.fulfillmentRateWeek, Cardinality(FulfilledThisWeek),
                     Cardinality(ThisWeek))
        /\ RateInRange(kpis.fulfillmentRateWeek)

\* C16 witness: of two orders due this week, one not completed but with
\* stock in expedicao counted as fulfilled and the other did not: 50.
C16_Witness ==
    /\ kpis.called
    /\ kpis.deliveriesThisWeek = 2
    /\ kpis.fulfillmentRateWeek = Num(50)
    /\ \E i \in 1..Len(orders) :
          /\ getOrderState(orders[i], clock) # "COMPLETED"
          /\ getSectorState(orders[i], "expedicao") = "IN_PROGRESS"

\* The positions of the orders with an open quantity.
OpenOrders == {i \in 1..Len(orders) : orders[i]["qtyOpen"].v > 0}

\* C17: totalInProduction is the number of orders with qtyOpen > 0 and
\* totalActiveDocs the number of distinct docNr among them, so
\* totalActiveDocs <= totalInProduction <= number of orders, and one is 0
\* exactly when the other is.
C17_ActiveCounts ==
    kpis.called =>
        /\ kpis.totalInProduction = Cardinality(OpenOrders)
        /\ kpis.totalActiveDocs = Cardinality({orders[i]["docNr"] : i \in OpenOrders})
        /\ kpis.totalActiveDocs <= kpis.totalInProduction
        /\ kpis.totalInProduction <= Len(orders)
        /\ kpis.totalActiveDocs = 0 <=> kpis.totalInProduction = 0

\* C17 witness: two open orders of one document.
C17_Witness ==
    /\ kpis.called
    /\ kpis.totalInProduction = 2
    /\ kpis.totalActiveDocs = 1

\* C18: on an empty order list calculateKPIs returns 0 for every count and
\* sum and 0 for fulfillmentRateWeek, on every current date.
C18_EmptyListZero ==
    (kpis.called /\ orders = <<>>) =>
        /\ kpis.totalActiveDocs = 0
        /\ kpis.totalLate = 0
        /\ kpis.deliveriesThisWeek = 0
        /\ kpis.totalInProduction = 0
        /\ kpis.billed = 0
        /\ kpis.open = 0
        /\ kpis.fulfillmentRateWeek = Num(0)

\* C18 witness: the KPIs of the empty list were computed on a Sunday.
C18_Witness ==
    /\ kpis.called
    /\ orders = <<>>
    /\ getDay(DayOf(clock)) = 0

----------------------------------------------------------------------------
(* Specification SpecCustom: one exportCustomColumns call on an order list *)
(* and a list of column keys.                                              *)

\* The longest list of column keys.
MaxKeys == 3

\* ALL_EXPORT_COLUMNS: the key and the label of every registered column.
ALL_EXPORT_COLUMNS ==
    <<
      [key |-> "docNr", label |-> "Nr. Documento"],
      [key |-> "itemNr", label |-> "Item"],
      [key |-> "id", label |-> "ID Interno"],
      [key |-> "clientName", label |-> "Cliente"],
      [key |-> "clientCode", label |-> "Cód. Cliente"],
      [key |-> "comercial", label |-> "Comercial"],
      [key |-> "po", label |-> "PO"],
      [key |-> "articleCode", label |-> "Artigo"],
      [key |-> "reference", label |-> "Referência"],
      [key |-> "colorCode", label |-> "Cód. Cor"],
      [key |-> "colorDesc", label |-> "Cor"],
      [key |-> "size", label |-> "Tamanho"],
      [key |-> "sizeDesc", label |-> "Desc. Tamanho"],
      [key |-> "family", label |-> "Família"],
      [key |-> "ean", label |-> "EAN"],
      [key |-> "qtyRequested", label |-> "Qtd. Pedida"],
      [key |-> "qtyBilled", label |-> "Qtd. Faturada"],
      [key |-> "qtyOpen", label |-> "Qtd. Em Aberto"],
      [key |-> "felpoCruQty", label |-> "Qtd. Felpo Cru"],
      [key |-> "tinturariaQty", label |-> "Qtd. Tinturaria"],
      [key |-> "confRoupoesQty", label |-> "Qtd. Conf. Roupões"],
      [key |-> "confFelposQty", label |-> "Qtd. Conf. Felpos"],
      [key |-> "embAcabQty", label |-> "Qtd. Embalagem"],
      [key |-> "stockCxQty", label |-> "Qtd. Stock Caixa"],
      [key |-> "issueDate", label |-> "Data Emissão"],
      [key |-> "requestedDate", label |-> "Data Entrega Pedida"],
      [key |-> "dataEnt", label |-> "Data Entrada"],
      [key |-> "dataTec", label |-> "Data Tecelagem"],
      [key |-> "felpoCruDate", label |-> "Data Felpo Cru"],
      [key |-> "tinturariaDate", label |-> "Data Tinturaria"],
      [key |-> "confDate", label |-> "Data Confecção"],
      [key |-> "armExpDate", label |-> "Data Prev. Armazém"],
      [key |-> "dataEspecial", label |-> "Data Especial"],
      [key |-> "dataPrinter", label |-> "Data Printer"],
      [key |-> "dataDebuxo", label |-> "Data Debuxo"],
      [key |-> "dataAmostras", label |-> "Data Amostras"],
      [key |-> "dataBordados", label |-> "Data Bordados"],
      [key |-> "estado", label |-> "Estado"],
      [key |-> "priority", label |-> "Prioridade"],
      [key |-> "isManual", label |-> "Conf. Manual"],
      [key |-> "isArchived", label |-> "Arquivado"],
      [key |-> "archivedAt", label |-> "Arquivado Em"],
      [key |-> "archivedBy", label |-> "Arquivado Por"],
      [key |-> "obs_tecelagem", label |-> "Obs. Tecelagem"],
      [key |-> "obs_felpo_cru", label |-> "Obs. Felpo Cru"],
      [key |-> "obs_tinturaria", label |-> "Obs. Tinturaria"],
      [key |-> "obs_confeccao", label |-> "Obs. Confecção"],
      [key |-> "obs_embalagem", label |-> "Obs. Embalagem"],
      [key |-> "obs_expedicao", label |-> "Obs. Expedição"],
      [key |-> "prev_tecelagem", label |-> "Prev. Tecelagem"],
      [key |-> "prev_felpo_cru", label |-> "Prev. Felpo Cru"],
      [key |-> "prev_tinturaria", label |-> "Prev. Tinturaria"],
      [key |-> "prev_confeccao", label |-> "Prev. Confecção"],
      [key |-> "prev_embalagem", label |-> "Prev. Embalagem"],
      [key |-> "prev_expedicao", label |-> "Prev. Expedição"],
      [key |-> "stop_tecelagem", label |-> "Motivo Tecelagem"],
      [key |-> "stop_felpo_cru", label |-> "Motivo Felpo Cru"],
      [key |-> "stop_tinturaria", label |-> "Motivo Tinturaria"],
      [key |-> "stop_confeccao", label |-> "Motivo Confecção"],
      [key |-> "stop_embalagem", label |-> "Motivo Embalagem"],
      [key |-> "stop_expedicao", label |-> "Motivo Expedição"]
    >>

\* Mutant of find: a key that is not registered gives the first column.
findOrFirst(k) ==
    LET hits == {i \in 1..Len(ALL_EXPORT_COLUMNS) : ALL_EXPORT_COLUMNS[i].key = k}
    IN  IF hits = {} THEN Obj(ALL_EXPORT_COLUMNS[1])
        ELSE Obj(ALL_EXPORT_COLUMNS[CHOOSE i \in hits : \A h \in hits : i <= h])

\* ALL_EXPORT_COLUMNS.find(c => c.key === k): the first column of that key,
\* or undefined.
find(k) ==
    LET hits == {i \in 1..Len(ALL_EXPORT_COLUMNS) : ALL_EXPORT_COLUMNS[i].key = k}
    IN  IF hits = {} THEN Undef
        ELSE Obj(ALL_EXPORT_COLUMNS[CHOOSE i \in hits : \A h \in hits : i <= h])

\* selectedColumnKeys.map(k => find(k)).filter(Boolean)
colDefs(ks) == SelectSeq([j \in 1..Len(ks) |-> find(ks[j])], Truthy)

\* The date fields getColumnValue formats.
columnDateFields ==
    {"issueDate", "requestedDate", "dataEnt", "dataTec", "felpoCruDate",
     "tinturariaDate", "confDate", "armExpDate", "dataEspecial", "dataPrinter",
     "dataDebuxo", "dataAmostras", "dataBordados", "archivedAt"}

\* key.startsWith(prefix)
StartsWith(key, prefix) ==
    Len(key) >= Len(prefix) /\ SubSeq(key, 1, Len(prefix)) = prefix

\* map?.[key.replace(prefix, '')]: the entry of the sector the key names, or
\* undefined.
SectorEntry(map, key, prefix) ==
    LET hits == {s \in SectorIds : key = prefix \o s}
    IN  IF map.k # "obj" \/ hits = {} THEN Undef
        ELSE LET s == CHOOSE s \in hits : TRUE
             IN  IF s \in DOMAIN map.v THEN map.v[s] ELSE Undef

\* formatDate(x) for a value that may be no Date: the display string of a
\* Date, and otherwise the application itself, whose value the source of
\* this module does not determine.
formatDateOf(x) == IF x.k = "date" THEN formatDate(x) ELSE [k |-> "formatDate", v |-> x]

\* A string value given by its text.
Text(s) == [k |-> "text", v |-> s]

getColumnValue(o, key, clk) ==
    IF key = "estado" THEN Text(getOrderState(o, clk))
    ELSE IF key = "priority" THEN
        (IF o["priority"] = Num(1) THEN Text("Alta")
         ELSE IF o["priority"] = Num(2) THEN Text("Média")
         ELSE IF o["priority"] = Num(3) THEN Text("Baixa")
         ELSE Str(<<>>))
    ELSE IF key = "isManual" THEN (IF Truthy(o["isManual"]) THEN Text("Sim") ELSE Text("Não"))
    ELSE IF key = "isArchived" THEN (IF Truthy(o["isArchived"]) THEN Text("Sim") ELSE Text("Não"))
    ELSE IF StartsWith(key, "obs_") THEN
        OrElse(SectorEntry(o["sectorObservations"], key, "obs_"), Str(<<>>))
    ELSE IF StartsWith(key, "prev_") THEN
        formatDateOf(SectorEntry(o["sectorPredictedDates"], key, "prev_"))
    ELSE IF StartsWith(key, "stop_") THEN
        OrElse(SectorEntry(o["sectorStopReasons"], key, "stop_"), Str(<<>>))
    ELSE LET val == IF key \in DOMAIN o THEN o[key] ELSE Undef
         IN  IF key \in columnDateFields /\ Truthy(val) THEN formatDateOf(val)
             ELSE IF val.k \in {"null", "undef"} THEN Str(<<>>)
             ELSE val

\* "row[name] = value" on an object, whose properties keep the order in
\* which they were first set.
SetProp(row, name, value) ==
    IF \E p \in 1..Len(row) : row[p].name = name
    THEN [p \in 1..Len(row) |->
             IF row[p].name = name THEN [name |-> name, value |-> value] ELSE row[p]]
    ELSE Append(row, [name |-> name, value |-> value])

\* colDefs.forEach(col => { row[col.label] = getColumnValue(order, col.key) })
RECURSIVE FillRow(_, _, _, _)
FillRow(row, defs, o, clk) ==
    IF defs = <<>> THEN row
    ELSE FillRow(SetProp(row, defs[1].v.label, getColumnValue(o, defs[1].v.key, clk)),
                 Tail(defs), o, clk)

\* The property names of the objects, each once, in the order they are met.
RECURSIVE AddNames(_, _)
AddNames(hdr, row) ==
    IF row = <<>> THEN hdr
    ELSE AddNames(IF \E c \in 1..Len(hdr) : hdr[c] = row[1].name THEN hdr
                  ELSE Append(hdr, row[1].name),
                  Tail(row))

RECURSIVE HeaderOf(_, _)
HeaderOf(hdr, data) ==
    IF data = <<>> THEN hdr ELSE HeaderOf(AddNames(hdr, data[1]), Tail(data))

\* The value of the property of that name.
ValueOf(row, name) == (CHOOSE p \in {row[q] : q \in 1..Len(row)} : p.name = name).value

\* XLSX.utils.json_to_sheet followed by XLSX.writeFile: a header row of the
\* property names and one row of values per object.
json_to_sheet(data) ==
    LET hdr == HeaderOf(<<>>, data)
    IN  [written |-> TRUE,
         header  |-> hdr,
         rows    |-> [i \in 1..Len(data) |-> [c \in 1..Len(hdr) |-> ValueOf(data[i], hdr[c])]]]

\* Mutant of NothingToExport: only the order list is tested.
NothingToExportOrdersOnly(os, ks) == Len(os) = 0

\* orders.length === 0 || selectedColumnKeys.length === 0
NothingToExport(os, ks) == Len(os) = 0 \/ Len(ks) = 0

exportCustomColumns(os, ks, clk) ==
    IF NothingToExport(os, ks) THEN NoSheet
    ELSE json_to_sheet([i \in 1..Len(os) |-> FillRow(<<>>, colDefs(ks), os[i], clk)])

\* The keys of the lists: registered plain, date, computed and per-sector
\* columns, and the name of an Order field that is no registered column.
ColumnKeys == {"docNr", "requestedDate", "estado", "prev_tecelagem", "sectorObservations"}

\* The key lists: up to max keys, repeats included.
KeyLists(max) == UNION { [1..n -> ColumnKeys] : n \in 0..max }

\* The i-th order of a list: plain, with a requested date, or with a
\* predicted date for the first sector.
CustomOrders(i) ==
    {OrderAt(i),
     Changed(OrderAt(i), <<"requestedDate", DateV(0)>>),
     Changed(OrderAt(i), <<"sectorPredictedDates", Obj([k \in {Sector1} |-> DateV(MsPerDay)])>>)}

CustomLists(max) ==
    UNION { {os \in [1..n -> UNION {CustomOrders(i) : i \in 1..n}] :
                \A i \in 1..n : os[i] \in CustomOrders(i)} : n \in 0..max }

InitCustom ==
    /\ orders \in CustomLists(MaxOrders)
    /\ keys \in KeyLists(MaxKeys)
    /\ clock \in {0, MsPerDay}
    /\ sheet = NoSheet
    /\ exported = "none"
    /\ order = BaseOrder
    /\ orderRet = NoRet
    /\ sectorRet = NoSectorRet
    /\ file = NoFile
    /\ result = NoResult
    /\ IdleNum
    /\ IdleStore /\ IdleImport /\ IdleExport /\ IdleKpi

CallExportCustomColumns ==
    /\ exported = "none"
    /\ sheet' = exportCustomColumns(orders, keys, clock)
    /\ exported' = "done"
    /\ UNCHANGED <<orders, file, result, keys, stateVars, numVars, storeVars, importVars,
                   exportVars, kpiVars>>

NextCustom == CallExportCustomColumns

SpecCustom == InitCustom /\ [][NextCustom]_vars

----------------------------------------------------------------------------
(* Claims about the custom column export, checked under SpecCustom.        *)

\* The key is the key of a registered column.
Registered(k) == \E c \in 1..Len(ALL_EXPORT_COLUMNS) : ALL_EXPORT_COLUMNS[c].key = k

\* The friendly label of a registered key.
LabelOf(k) ==
    ALL_EXPORT_COLUMNS[CHOOSE c \in 1..Len(ALL_EXPORT_COLUMNS) :
                           ALL_EXPORT_COLUMNS[c].key = k].label

\* The positions of the key list that hold a registered key for the first
\* time.
FirstRegistered ==
    {j \in 1..Len(keys) : Registered(keys[j]) /\ \A i \in 1..(j - 1) : keys[i] # keys[j]}

\* The column a position of FirstRegistered gets.
ColumnOf(j) == Cardinality({i \in FirstRegistered : i <= j})

\* C19 as stated: the sheet has exactly one column per key of the key list,
\* in the order given, headed by the column's label, and one row per order,
\* for every key list, repeated or unregistered keys included.
C19_OneColumnPerKey ==
    sheet.written =>
        /\ Len(sheet.header) = Len(keys)
        /\ \A j \in 1..Len(keys) :
              Registered(keys[j]) /\ sheet.header[j] = LabelOf(keys[j])
        /\ Len(sheet.rows) = Len(orders)

\* C19 as the code has it: the sheet has exactly one column per distinct
\* registered key, in the order of the keys' first occurrences, headed by
\* the column's label; a key that is not registered gets no column and a
\* repeated key gets one; there is one row per order, in order-list order,
\* holding the column values of that order.  A list of distinct registered
\* keys therefore gets one column per key in the exact order given.
C19_OneColumnPerRegisteredKey ==
    sheet.written =>
        /\ Len(sheet.header) = Cardinality(FirstRegistered)
        /\ \A j \in FirstRegistered : sheet.header[ColumnOf(j)] = LabelOf(keys[j])
        /\ Len(sheet.rows) = Len(orders)
        /\ \A i \in 1..Len(orders) :
              /\ Len(sheet.rows[i]) = Cardinality(FirstRegistered)
              /\ \A j \in FirstRegistered :
                    sheet.rows[i][ColumnOf(j)] = getColumnValue(orders[i], keys[j], clock)
        /\ FirstRegistered = 1..Len(keys) =>
              sheet.header = [j \in 1..Len(keys) |-> LabelOf(keys[j])]

\* C19 witness: two orders were written under a key list with a repeated
\* key and an unregistered key, and the sheet has one column.
C19_Witness ==
    /\ sheet.written
    /\ Len(orders) = 2
    /\ keys = <<"docNr", "sectorObservations", "docNr">>
    /\ sheet.header = <<"Nr. Documento">>
    /\ Len(sheet.rows) = 2

\* C20: exportCustomColumns with an empty order list or an empty key list
\* writes nothing (no workbook, no file) and returns without an error.
C20_NoOpOnEmpty ==
    /\ exported # "failed"
    /\ (exported = "done" /\ (orders = <<>> \/ keys = <<>>)) => sheet = NoSheet

\* C20 witness: the call returned on orders with an empty key list.
C20_Witness ==
    /\ exported = "done"
    /\ orders # <<>>
    /\ keys = <<>>
    /\ ~sheet.written

----------------------------------------------------------------------------
(* Specification SpecSheet: a full spreadsheet export of an order list and *)
(* the spreadsheet import of the written file.                             *)

\* Mutant of ReadColumns: the import does not read the last column.
ReadColumnsWithoutLast ==
    {"B", "F", "A", "AE", "C", "AD", "L", "D", "E", "G", "H", "I", "J", "K", "M",
     "N", "O", "P", "Q", "R", "S", "T", "U", "V", "W", "X", "Y", "Z", "AA", "AB",
     "AC", "AF", "AG", "AH", "AI", "AJ", "AK", "AL", "AM", "AN", "AO", "AP", "AQ"}

\* The column letters parseExcelFile reads from a row.
ReadColumns ==
    {"B", "F", "A", "AE", "C", "AD", "L", "D", "E", "G", "H", "I", "J", "K", "M",
     "N", "O", "P", "Q", "R", "S", "T", "U", "V", "W", "X", "Y", "Z", "AA", "AB",
     "AC", "AF", "AG", "AH", "AI", "AJ", "AK", "AL", "AM", "AN", "AO", "AP", "AQ",
     "AR"}

\* The i-th order of an exported list: plain, or with one field set, among
\* them the field of the last column.
SheetOrders(i) ==
    {Changed(OrderAt(i), ch) :
        ch \in {NoChange,
                <<"requestedDate", DateV(MsPerDay)>>,
                <<"archivedBy", Str(<<"A">>)>>,
                <<"isArchived", Bool(TRUE)>>,
                <<"clientName", Str(<<"K">>)>>,
                <<"priority", Num(2)>>,
                <<"sectorObservations", Obj([k \in {Sector1} |-> Str(<<"o">>)])>>}}

SheetLists(max) ==
    UNION { {os \in [1..n -> UNION {SheetOrders(i) : i \in 1..n}] :
                \A i \in 1..n : os[i] \in SheetOrders(i)} : n \in 0..max }

InitSheet ==
    /\ orders \in SheetLists(MaxOrders)
    /\ file = NoFile
    /\ exported = "none"
    /\ result = NoResult
    /\ IdleState
    /\ IdleNum
    /\ IdleStore /\ IdleImport /\ IdleExport /\ IdleKpi /\ IdleCustom

NextSheet ==
    \/ ExportOrdersToExcel
    \/ ParseDataFile

SpecSheet == InitSheet /\ [][NextSheet]_vars

----------------------------------------------------------------------------
(* Claims about the sheet layout, checked under SpecSheet.                 *)

Alphabet ==
    <<"A", "B", "C", "D", "E", "F", "G", "H", "I", "J", "K", "L", "M", "N", "O",
      "P", "Q", "R", "S", "T", "U", "V", "W", "X", "Y", "Z">>

\* The letters of the n-th column of a sheet, for the columns A to ZZ.
ColumnLetter(n) ==
    IF n <= Len(Alphabet) THEN Alphabet[n]
    ELSE Alphabet[(n - 1) \div Len(Alphabet)] \o Alphabet[((n - 1) % Len(Alphabet)) + 1]

\* The letters of the first n columns.
LettersThrough(n) == {ColumnLetter(i) : i \in 1..n}

\* The columns the export gave a row: the properties of its row object.
WrittenColumns(i) == DOMAIN file.rows[i]

\* The full spreadsheet export has written its file.
SheetWritten == exported = "done" /\ file.kind = "xlsx" /\ file.origin = "export"

\* C21 as stated: the header row and every order row of the full export
\* have exactly 45 columns, lettered A through AR, and these are exactly
\* the column letters the spreadsheet import reads.
C21_FortyFiveColumns ==
    SheetWritten =>
        /\ Len(file.rows) = Len(orders) + 1
        /\ \A i \in 1..Len(file.rows) :
              /\ Cardinality(WrittenColumns(i)) = 45
              /\ \E n \in 1..(2 * Len(Alphabet)) :
                    ColumnLetter(n) = "AR" /\ WrittenColumns(i) = LettersThrough(n)
              /\ WrittenColumns(i) = ReadColumns

\* C21 as the code has it: the header row and every order row of the full
\* export have exactly 44 columns, the columns A through AR (A to Z and AA
\* to AR), every column of the header row holds a label, and these 44
\* letters are exactly the column letters the spreadsheet import reads.
C21_ColumnsAThroughAR ==
    SheetWritten =>
        /\ Len(file.rows) = Len(orders) + 1
        /\ \A i \in 1..Len(file.rows) :
              /\ Cardinality(WrittenColumns(i)) = 44
              /\ ColumnLetter(44) = "AR"
              /\ WrittenColumns(i) = LettersThrough(44)
              /\ WrittenColumns(i) = ReadColumns
        /\ \A c \in WrittenColumns(1) : Truthy(file.rows[1][c])

\* C21 witness: two orders were exported, the last column of the second row
\* holds a value, and the import read the file back.
C21_Witness ==
    /\ SheetWritten
    /\ Len(orders) = 2
    /\ file.rows[2]["AR"] = Str(<<"A">>)
    /\ result.status = "resolved"
    /\ Len(result.orders) = 2

----------------------------------------------------------------------------
(* Specification SpecLate: one calculateKPIs call on orders whose          *)
(* quantities may be negative and whose sector dates may be past.          *)

\* The current dates: the first and the last millisecond of 1 January 1970.
LateClocks == {0, MsPerDay - 1}

\* The last millisecond of the day before, and today's midnight.
Yesterday == DateV(0 - 1)

Today == DateV(0)

\* The dates of an order: none, one of the five due dates past, or the
\* requested date today.
LateDates ==
    {NoChange, <<"requestedDate", Today>>}
    \cup {<<f, Yesterday>> :
            f \in {"dataTec", "felpoCruDate", "tinturariaDate", "confDate", "requestedDate"}}

\* The i-th order with four quantities and at most one date set.
LateOrder(i, req, open, stock, felpo, dt) ==
    Changed([OrderAt(i) EXCEPT !["qtyRequested"] = Num(req), !["qtyOpen"] = Num(open),
                               !["stockCxQty"] = Num(stock), !["felpoCruQty"] = Num(felpo)],
            dt)

\* The orders of the one-order lists: every quantity from -1 to MaxQty.
SingleLateOrders ==
    { LateOrder(1, q[1], q[2], q[3], q[4], dt) :
        q \in ((0 - 1)..MaxQty) \X ((0 - 1)..MaxQty) \X ((0 - 1)..MaxQty) \X ((0 - 1)..MaxQty),
        dt \in LateDates }

\* The orders of the longer lists: late by a sector date, late by the
\* requested date, open with no date, and with nothing open.
LateListOrders(i) ==
    { LateOrder(i, MaxQty, MaxQty, 0, 0, <<"dataTec", Yesterday>>),
      LateOrder(i, MaxQty, 1, 0, MaxQty, <<"requestedDate", Yesterday>>),
      LateOrder(i, MaxQty, MaxQty, 0, 0, NoChange),
      LateOrder(i, MaxQty, 0, 0, 0, <<"confDate", Yesterday>>) }

LateLists(max) ==
    {<<>>} \cup { <<o>> : o \in SingleLateOrders }
    \cup UNION { {os \in [1..n -> UNION {LateListOrders(i) : i \in 1..n}] :
                     \A i \in 1..n : os[i] \in LateListOrders(i)} : n \in 2..max }

InitLate ==
    /\ orders \in LateLists(MaxOrders)
    /\ clock \in LateClocks
    /\ kpis = NoKpis
    /\ order = BaseOrder
    /\ orderRet = NoRet
    /\ sectorRet = NoSectorRet
    /\ file = NoFile
    /\ exported = "none"
    /\ result = NoResult
    /\ IdleNum
    /\ IdleStore /\ IdleImport /\ IdleExport /\ IdleCustom

NextLate == CallCalculateKPIs

SpecLate == InitLate /\ [][NextLate]_vars

----------------------------------------------------------------------------
(* Claims about late orders, checked under SpecLate.                       *)

\* No quantity of any order of the list is negative.
NoNegativeQuantity ==
    \A i \in 1..Len(orders) : \A f \in QtyFields : orders[i][f].v >= 0

\* The positions of the orders getOrderState classifies as LATE.
LateOrders == {i \in 1..Len(orders) : getOrderState(orders[i], clock) = "LATE"}

\* C22: in an order list whose quantities are all non-negative, every order
\* that getOrderState classifies as LATE has qtyOpen > 0, so every order
\* counted in totalLate is counted in totalInProduction and
\* totalLate <= totalInProduction.
C22_LateIsInProduction ==
    (kpis.called /\ NoNegativeQuantity) =>
        /\ \A i \in LateOrders : orders[i]["qtyOpen"].v > 0
        /\ kpis.totalLate = Cardinality(LateOrders)
        /\ LateOrders \subseteq {i \in 1..Len(orders) : orders[i]["qtyOpen"].v > 0}
        /\ kpis.totalLate <= kpis.totalInProduction

\* C22 witness: of two orders in production, one is late by a sector date
\* while its requested date is not set.
C22_Witness ==
    /\ kpis.called
    /\ NoNegativeQuantity
    /\ kpis.totalLate = 1
    /\ kpis.totalInProduction = 2
    /\ \E i \in LateOrders : orders[i]["requestedDate"] = Null

----------------------------------------------------------------------------
(* Specification SpecUsers: initializeDefaultUsers calls of several        *)
(* callers, step by step, next to saveUserToDB and deleteUserFromDB calls  *)
(* of other callers.  Each transaction on the user store is one step; a    *)
(* call can be overtaken at each of its awaits.                            *)

\* hashPassword: a digest that depends on the password alone.
hashPassword(pw) == "sha256:" \o pw

\* The two default accounts; their permissions, the same in every call,
\* are left out.
planUser ==
    [id |-> "1", username |-> "Plan", name |-> "Planeamento",
     passwordHash |-> hashPassword("Lasa"), role |-> "admin"]

lasaUser ==
    [id |-> "2", username |-> "Lasa", name |-> "Utilizador Lasa",
     passwordHash |-> hashPassword(""), role |-> "viewer"]

\* The users other callers save: the first account with another password,
\* and a third account.
OtherUsers ==
    { [planUser EXCEPT !.passwordHash = hashPassword("new")],
      [id |-> "3", username |-> "Ana", name |-> "Ana", passwordHash |-> hashPassword("a"),
       role |-> "viewer"] }

\* objectStore.put(user): the user is stored under its id, replacing the
\* user stored there.
put(store, user) == [store EXCEPT ![user.id] = user]

\* getAll() gave no user.
NoUsers(store) == \A id \in UserIds : store[id] = NoUser

InitUsers ==
    /\ userStore = EmptyUsers
    /\ initCall = [p \in Callers |-> NoCall]
    /\ userOps = 0
    /\ stored = NotStored
    /\ loaded = NotLoaded
    /\ orders = <<>>
    /\ file = NoFile
    /\ exported = "none"
    /\ result = NoResult
    /\ IdleState
    /\ IdleNum
    /\ IdleImport /\ IdleExport /\ IdleKpi /\ IdleCustom

\* A caller calls initializeDefaultUsers.
CallInitializeDefaultUsers(p) ==
    /\ initCall[p].pc = "idle"
    /\ initCall' = [initCall EXCEPT ![p] = [pc |-> "load", returned |-> "none"]]
    /\ UNCHANGED <<userStore, userOps, stored, loaded, ioVars, stateVars, numVars, importVars,
                   exportVars, kpiVars, customVars>>

\* "const users = await loadUsersFromDB(); if (users.length === 0)": the
\* call goes on to its writes, or returns the users it read.
InitLoadUsers(p) ==
    /\ initCall[p].pc = "load"
    /\ initCall' = [initCall EXCEPT ![p] =
                        IF NoUsers(userStore) THEN [pc |-> "savePlan", returned |-> "none"]
                        ELSE [pc |-> "idle", returned |-> "users"]]
    /\ UNCHANGED <<userStore, userOps, stored, loaded, ioVars, stateVars, numVars, importVars,
                   exportVars, kpiVars, customVars>>

\* "await saveUserToDB(planUser)"
InitSavePlan(p) ==
    /\ initCall[p].pc = "savePlan"
    /\ userStore' = put(userStore, planUser)
    /\ initCall' = [initCall EXCEPT ![p] = [pc |-> "saveLasa", returned |-> "none"]]
    /\ UNCHANGED <<userOps, stored, loaded, ioVars, stateVars, numVars, importVars,
                   exportVars, kpiVars, customVars>>

\* "await saveUserToDB(lasaUser); return [planUser, lasaUser]"
InitSaveLasa(p) ==
    /\ initCall[p].pc = "saveLasa"
    /\ userStore' = put(userStore, lasaUser)
    /\ initCall' = [initCall EXCEPT ![p] = [pc |-> "idle", returned |-> "defaults"]]
    /\ UNCHANGED <<userOps, stored, loaded, ioVars, stateVars, numVars, importVars,
                   exportVars, kpiVars, customVars>>

\* saveUserToDB(user) of another caller.
SaveUserToDB(u) ==
    /\ userOps < MaxOps
    /\ userStore' = put(userStore, u)
    /\ userOps' = userOps + 1
    /\ UNCHANGED <<initCall, stored, loaded, ioVars, stateVars, numVars, importVars,
                   exportVars, kpiVars, customVars>>

\* deleteUserFromDB(userId) of another caller.
DeleteUserFromDB(id) ==
    /\ userOps < MaxOps
    /\ userStore' = [userStore EXCEPT ![id] = NoUser]
    /\ userOps' = userOps + 1
    /\ UNCHANGED <<initCall, stored, loaded, ioVars, stateVars, numVars, importVars,
                   exportVars, kpiVars, customVars>>

NextUsers ==
    \/ \E p \in Callers : CallInitializeDefaultUsers(p)
    \/ \E p \in Callers : InitLoadUsers(p)
    \/ \E p \in Callers : InitSavePlan(p)
    \/ \E p \in Callers : InitSaveLasa(p)
    \/ \E u \in OtherUsers : SaveUserToDB(u)
    \/ \E id \in UserIds : DeleteUserFromDB(id)

SpecUsers == InitUsers /\ [][NextUsers]_vars

----------------------------------------------------------------------------
(* Claims about the default users, checked under SpecUsers.                *)

\* A call starts its writes.
InitStartsWriting ==
    \E p \in Callers : initCall[p].pc = "savePlan" /\ initCall'[p].pc = "saveLasa"

\* A call writes a default account.
InitWrites ==
    \E p \in Callers :
        /\ initCall[p].pc \in {"savePlan", "saveLasa"}
        /\ initCall'[p].pc # initCall[p].pc

\* Every user stored before the step is stored unchanged after it.
StoredUsersKept == \A id \in UserIds : userStore[id] # NoUser => userStore'[id] = userStore[id]

\* The store holds the two default accounts and nothing else.
OnlyDefaults == userStore = [EmptyUsers EXCEPT !["1"] = planUser, !["2"] = lasaUser]

\* Every call has returned and at least one was made.
AllCallsReturned ==
    /\ \A p \in Callers : initCall[p].pc = "idle"
    /\ \E p \in Callers : initCall[p].returned # "none"

\* A call starts to write the default accounts only when the store is empty.
WritesOnlyWhenEmpty == [][InitStartsWriting => NoUsers(userStore)]_vars

\* A write of a call never overwrites or changes a user already stored.
NeverOverwrites == [][InitWrites => StoredUsersKept]_vars

\* Started on an empty store, calls alone, sequential or concurrent, leave
\* exactly the two default accounts.
CallsAloneLeaveDefaults == []((userOps = 0 /\ AllCallsReturned) => OnlyDefaults)

\* C23: initializeDefaultUsers is idempotent under any interleaving of
\* calls with saveUserToDB and deleteUserFromDB: it writes the two default
\* accounts only when the user store is empty, its writes never overwrite
\* or change a user already stored, and started on an empty store any
\* number of sequential or concurrent calls leaves exactly the two accounts.
C23_InitializeIdempotent ==
    /\ WritesOnlyWhenEmpty
    /\ NeverOverwrites
    /\ CallsAloneLeaveDefaults

\* Lemma: while no other caller has saved or deleted a user, the writes of
\* concurrent calls change no stored user.
CallsAloneNeverOverwrite == [][(InitWrites /\ userOps = 0) => StoredUsersKept]_vars

\* The first account as another caller saved it was replaced by the
\* default account of a call that had read an empty store.
SavedUserOverwritten ==
    /\ userStore["1"] = planUser
    /\ userOps > 0
    /\ \E p \in Callers : initCall[p].pc = "saveLasa"

====
